---- MODULE Spec2Model ----
(***************************************************************************)
(* Problem detection (query_analyzer.py) and suggestion generation         *)
(* (optimization_suggester.py) of the StarRocks slow query analyzer.       *)
(*                                                                         *)
(* Conventions                                                             *)
(*   - SQL texts are strings; a character is a string of length one.       *)
(*   - execution_time (float seconds in the source) is an integer number   *)
(*     of hundredths of a second: 10.0 s is 1000, 5.0 s is 500.            *)
(*   - an optional value is None or Str(s); a call's outcome is            *)
(*     Returned(v), Raised(exception) or NotCalled.                        *)
(*   - the Chinese message texts of the source are written in ASCII.       *)
(***************************************************************************)
EXTENDS Integers, Sequences, FiniteSets, TLC

VARIABLES
    analyzer,        \* the QueryAnalyzer instance: max_scan_rows, max_scan_bytes
    query_info,      \* the record passed to the latest analyze_query call
    execution_plan,  \* the plan passed to the latest analyze_query call
    problems,        \* outcome of the latest analyze_query call
    first_call,      \* history: arguments and outcome of the instance's first call
    between,         \* history: calls on other records since the first call
    hash_seed,       \* the string hash seed of the process
    sug_problems,    \* the problem list passed to the latest generate_suggestions
    suggestions,     \* outcome of the latest generate_suggestions call
    derived_severity, \* outcome of the latest read of the record's severity
    threads,         \* the frames of the calls running concurrently on the instances
    connection,      \* StarRocksConnector.connection
    log,             \* history: what the connector did, oldest first
    run              \* the frame of the running StarRocksSlowQueryAnalyzer call

vars == <<analyzer, query_info, execution_plan, problems, first_call, between,
          hash_seed, sug_problems, suggestions, derived_severity,
          threads, connection, log, run>>

-----------------------------------------------------------------------------
(* Python values *)

None == [type |-> "NoneType"]
Str(s) == [type |-> "str", value |-> s]
Dict(s) == [type |-> "dict", value |-> s]      \* value: the text str() gives
EmptyDict == [k \in {} |-> 0]

NotCalled == [status |-> "not called", exc |-> "", ret |-> <<>>]
Returned(v) == [status |-> "returned", exc |-> "", ret |-> v]
Raised(e) == [status |-> "raised", exc |-> e, ret |-> <<>>]

\* dict.get(key, default)
Get(d, key, default) == IF key \in DOMAIN d THEN d[key] ELSE default

\* truth value of an optional plan: None, the empty dict and "" are false
Truthy(v) ==
    /\ v.type # "NoneType"
    /\ v.type = "dict" => v.value # "{}"
    /\ v.type = "str" => v.value # ""

-----------------------------------------------------------------------------
(* Characters and strings *)

UpperLetters == "ABCDEFGHIJKLMNOPQRSTUVWXYZ"
LowerLetters == "abcdefghijklmnopqrstuvwxyz"
Digits == "0123456789"

Char(s, i) == SubSeq(s, i, i)
CharsOf(s) == {Char(s, i) : i \in 1..Len(s)}

UpperSet == CharsOf(UpperLetters)
LowerSet == CharsOf(LowerLetters)
DigitSet == CharsOf(Digits)
\* \w of the re module, on the ASCII alphabet
WordSet == UpperSet \cup LowerSet \cup DigitSet \cup {"_"}
\* \s of the re module, on the ASCII alphabet
SpaceSet == {" ", "\t", "\n", "\r"}

UpperChar(c) ==
    IF c \in LowerSet
    THEN Char(UpperLetters, CHOOSE i \in 1..26 : Char(LowerLetters, i) = c)
    ELSE c

\* str.upper()
RECURSIVE Upper(_)
Upper(s) == IF s = "" THEN "" ELSE UpperChar(Char(s, 1)) \o Upper(SubSeq(s, 2, Len(s)))

\* s[i:i+len(sub)] == sub
MatchAt(s, i, sub) == i >= 1 /\ i + Len(sub) - 1 <= Len(s) /\ SubSeq(s, i, i + Len(sub) - 1) = sub

\* sub in s
Contains(s, sub) == \E i \in 1..(Len(s) + 1) : MatchAt(s, i, sub)

\* s.startswith(sub)
StartsWith(s, sub) == MatchAt(s, 1, sub)

\* \b at the gap before position i (1 <= i <= Len(s)+1)
IsWordAt(s, i) == i >= 1 /\ i <= Len(s) /\ Char(s, i) \in WordSet
Boundary(s, i) == IsWordAt(s, i - 1) # IsWordAt(s, i)

\* number of consecutive \s characters of s starting at position i
RECURSIVE SpaceRun(_, _)
SpaceRun(s, i) ==
    IF i <= Len(s) /\ Char(s, i) \in SpaceSet THEN 1 + SpaceRun(s, i + 1) ELSE 0

\* first position >= i holding character c, or Len(s)+1
RECURSIVE Find(_, _, _)
Find(s, i, c) ==
    IF i > Len(s) THEN Len(s) + 1
    ELSE IF Char(s, i) = c THEN i ELSE Find(s, i + 1, c)

\* "%d" % n padded to two digits
TwoDigits(n) == IF n < 10 THEN "0" \o ToString(n) ELSE ToString(n)

\* f"{x:.2f}" of a value given in hundredths
Fmt2(h) == ToString(h \div 100) \o "." \o TwoDigits(h % 100)

\* n / d in hundredths, rounded to nearest (quotient and remainder are
\* scaled separately to stay within 32-bit integers)
Hundredths(n, d) == 100 * (n \div d) + (100 * (n % d) + d \div 2) \div d

-----------------------------------------------------------------------------
(* slow_query_collector.py: derived attributes of SlowQueryInfo *)

Yi == 100000000
Wan == 10000
GiB == 1073741824
MiB == 1048576
KiB == 1024

scan_rows_formatted(q) ==
    IF q.scan_rows >= Yi THEN Fmt2(Hundredths(q.scan_rows, Yi)) \o " yi"
    ELSE IF q.scan_rows >= Wan THEN Fmt2(Hundredths(q.scan_rows, Wan)) \o " wan"
    ELSE ToString(q.scan_rows)

scan_bytes_formatted(q) ==
    IF q.scan_bytes >= GiB THEN Fmt2(Hundredths(q.scan_bytes, GiB)) \o " GB"
    ELSE IF q.scan_bytes >= MiB THEN Fmt2(Hundredths(q.scan_bytes, MiB)) \o " MB"
    ELSE IF q.scan_bytes >= KiB THEN Fmt2(Hundredths(q.scan_bytes, KiB)) \o " KB"
    ELSE ToString(q.scan_bytes) \o " B"

-----------------------------------------------------------------------------
(* Input texts *)

\* SQL texts: null, blank, and texts that trigger each lexical rule, none of
\* them, or several of them, one of them over two tables, one with OR and no
\* WHERE, one with an empty argument list, one with a lower-case LIKE and a
\* double quote, one that is no SELECT
SqlTexts ==
    {None,
     Str(""),
     Str("SELECT id FROM t WHERE id=1"),
     Str("SELECT * FROM orders WHERE status = 'pending'"),
     Str("select * from t where a = 1 or b = 2"),
     Str("SELECT id FROM t WHERE name LIKE '%smith'"),
     Str("SELECT id FROM t WHERE YEAR(created_at) = 2023"),
     Str("SELECT name FROM customers"),
     Str("SELECT COUNT(*) FROM customers"),
     Str("SELECT a FROM (SELECT a FROM t) x"),
     Str("SELECT * FROM ( SELECT a FROM t) x"),
     Str("SELECT * FROM ( SELECT * FROM t) x WHERE UPPER(n) LIKE '%a' OR b = 1"),
     Str("SELECT * FROM a JOIN b ON a.id = b.id WHERE a.x > 1 ORDER BY a.y"),
     Str("SELECT a FROM t JOIN u ON t.a = u.a OR t.b = u.b"),
     Str("SELECT a FROM t WHERE b = NOW()"),
     Str("SELECT id FROM t WHERE name like \"%smith\""),
     Str("UPDATE t SET a = 1"),
     Str("SELEC )( ;; FROM")}

\* SQL texts of the records analysed between two calls on one triple
OtherTexts ==
    {Str("SELECT * FROM big WHERE f(a) = 1 OR b = 2"),
     Str("SELECT id FROM t WHERE id=1")}

-----------------------------------------------------------------------------
(* query_analyzer.py *)

ProblemType ==
    {"FULL_TABLE_SCAN", "NO_INDEX", "TOO_MANY_ROWS", "MEMORY_INTENSIVE",
     "JOIN_INEFFICIENT", "SUBQUERY_INEFFICIENT", "ORDERBY_EXPENSIVE",
     "GROUPBY_EXPENSIVE", "LARGE_RESULT_SET", "NO_WHERE_CLAUSE", "SELECT_STAR",
     "OR_CONDITION", "LIKE_PREFIX_WILDCARD", "FUNCTION_IN_WHERE"}

QueryProblem(t, sev, desc, sug, ev) ==
    [problem_type |-> t, severity |-> sev, description |-> desc,
     suggestion |-> sug, evidence |-> ev]

DefaultMaxScanRows == 10000000
DefaultMaxScanBytes == 1073741824
MemoryLimit == 536870912
CriticalTime == 1000
HighTime == 500
MediumTime == 100

\* QueryAnalyzer.__init__
QueryAnalyzer(config) ==
    LET cfg == IF config = None THEN EmptyDict ELSE config
    IN [max_scan_rows |-> Get(cfg, "max_scan_rows", DefaultMaxScanRows),
        max_scan_bytes |-> Get(cfg, "max_scan_bytes", DefaultMaxScanBytes)]

\* variant: the 10 s limit compared with > instead of >=
_analyze_execution_time_gt(q) ==
    IF q.execution_time > CriticalTime
    THEN << QueryProblem("FULL_TABLE_SCAN", "CRITICAL",
                "execution time too long: " \o Fmt2(q.execution_time) \o " s",
                "check for full table scans, add an index or rework the query",
                "execution time: " \o Fmt2(q.execution_time) \o "s") >>
    ELSE IF q.execution_time >= HighTime
    THEN << QueryProblem("FULL_TABLE_SCAN", "HIGH",
                "execution time long: " \o Fmt2(q.execution_time) \o " s",
                "analyse the query plan",
                "execution time: " \o Fmt2(q.execution_time) \o "s") >>
    ELSE << >>

\* variant: the HIGH problem emitted from 1 s on, the limit of severity MEDIUM
_analyze_execution_time_medium(q) ==
    IF q.execution_time >= CriticalTime
    THEN << QueryProblem("FULL_TABLE_SCAN", "CRITICAL",
                "execution time too long: " \o Fmt2(q.execution_time) \o " s",
                "check for full table scans, add an index or rework the query",
                "execution time: " \o Fmt2(q.execution_time) \o "s") >>
    ELSE IF q.execution_time >= 100
    THEN << QueryProblem("FULL_TABLE_SCAN", "HIGH",
                "execution time long: " \o Fmt2(q.execution_time) \o " s",
                "analyse the query plan",
                "execution time: " \o Fmt2(q.execution_time) \o "s") >>
    ELSE << >>

_analyze_execution_time(q) ==
    IF q.execution_time >= CriticalTime
    THEN << QueryProblem("FULL_TABLE_SCAN", "CRITICAL",
                "execution time too long: " \o Fmt2(q.execution_time) \o " s",
                "check for full table scans, add an index or rework the query",
                "execution time: " \o Fmt2(q.execution_time) \o "s") >>
    ELSE IF q.execution_time >= HighTime
    THEN << QueryProblem("FULL_TABLE_SCAN", "HIGH",
                "execution time long: " \o Fmt2(q.execution_time) \o " s",
                "analyse the query plan",
                "execution time: " \o Fmt2(q.execution_time) \o "s") >>
    ELSE << >>

\* the three rules of _analyze_scan_data
rows_rule(q) ==
    << QueryProblem("TOO_MANY_ROWS", "HIGH",
           "too many rows scanned: " \o scan_rows_formatted(q),
           "add a WHERE condition or an index",
           "scan rows: " \o ToString(q.scan_rows)) >>

bytes_rule(q) ==
    << QueryProblem("TOO_MANY_ROWS", "HIGH",
           "too much data scanned: " \o scan_bytes_formatted(q),
           "select only the needed columns, consider partition pruning",
           "scan bytes: " \o ToString(q.scan_bytes)) >>

memory_rule(q) ==
    << QueryProblem("MEMORY_INTENSIVE", "MEDIUM",
           "memory use high: " \o Fmt2(Hundredths(q.memory_used, MiB)) \o " MB",
           "raise the memory limit or rework the query",
           "memory used: " \o Fmt2(Hundredths(q.memory_used, MiB)) \o " MB") >>

\* variant: the row limit compared with >= instead of >
_analyze_scan_data_ge(self, q) ==
    (IF q.scan_rows >= self.max_scan_rows THEN rows_rule(q) ELSE << >>)
    \o (IF q.scan_bytes > self.max_scan_bytes THEN bytes_rule(q) ELSE << >>)
    \o (IF q.memory_used > MemoryLimit THEN memory_rule(q) ELSE << >>)

\* variant: the byte rule as an elif of the row rule
_analyze_scan_data_elif(self, q) ==
    (IF q.scan_rows > self.max_scan_rows THEN rows_rule(q)
     ELSE IF q.scan_bytes > self.max_scan_bytes THEN bytes_rule(q) ELSE << >>)
    \o (IF q.memory_used > MemoryLimit THEN memory_rule(q) ELSE << >>)

\* variant: the byte limit compared with >= instead of >
_analyze_scan_data_bytes_ge(self, q) ==
    (IF q.scan_rows > self.max_scan_rows THEN rows_rule(q) ELSE << >>)
    \o (IF q.scan_bytes >= self.max_scan_bytes THEN bytes_rule(q) ELSE << >>)
    \o (IF q.memory_used > MemoryLimit THEN memory_rule(q) ELSE << >>)

\* variant: the memory limit compared with >= instead of >
_analyze_scan_data_memory_ge(self, q) ==
    (IF q.scan_rows > self.max_scan_rows THEN rows_rule(q) ELSE << >>)
    \o (IF q.scan_bytes > self.max_scan_bytes THEN bytes_rule(q) ELSE << >>)
    \o (IF q.memory_used >= MemoryLimit THEN memory_rule(q) ELSE << >>)

_analyze_scan_data(self, q) ==
    (IF q.scan_rows > self.max_scan_rows THEN rows_rule(q) ELSE << >>)
    \o (IF q.scan_bytes > self.max_scan_bytes THEN bytes_rule(q) ELSE << >>)
    \o (IF q.memory_used > MemoryLimit THEN memory_rule(q) ELSE << >>)

\* sqlparse.parse(text): the statements of the text; none for the empty text
\* (for a text of whitespace only some versions return none, others one
\* statement in which no rule matches: the pass returns the empty list in both)
sqlparse_parse(text) ==
    IF \A i \in 1..Len(text) : Char(text, i) \in SpaceSet THEN << >> ELSE << text >>

\* 'SELECT *' in sql
has_select_star(sql) == Contains(sql, "SELECT *")

\* variant: OR found anywhere, also inside a word
has_or_token_anywhere(sql) == \E i \in 1..Len(sql) : MatchAt(sql, i, "OR")

\* re.search(r'\bOR\b', sql)
has_or_token(sql) ==
    \E i \in 1..Len(sql) :
        MatchAt(sql, i, "OR") /\ Boundary(sql, i) /\ Boundary(sql, i + 2)

\* re.search(r'LIKE\s+[\'"]%[^%]', sql)
has_like_prefix_wildcard(sql) ==
    \E i \in 1..Len(sql) :
        /\ MatchAt(sql, i, "LIKE")
        /\ LET w == SpaceRun(sql, i + 4)
               p == i + 4 + w
           IN /\ w >= 1
              /\ p + 2 <= Len(sql)
              /\ Char(sql, p) \in {"'", "\""}
              /\ Char(sql, p + 1) = "%"
              /\ Char(sql, p + 2) # "%"

\* kw\s+([^;]+) matches at position i of the upper-cased text U
ClauseMatchAt(U, i, kw) ==
    /\ MatchAt(U, i, kw)
    /\ LET w == SpaceRun(U, i + Len(kw))
           p == i + Len(kw) + w
       IN /\ w >= 1
          /\ \/ p <= Len(U) /\ Char(U, p) # ";"
             \/ w >= 2

\* where group 1 of kw\s+([^;]+) matched at position i starts: \s+ is greedy
\* and gives back its last character when only ';' or the end follows
ClauseStart(U, i, kw) ==
    LET w == SpaceRun(U, i + Len(kw))
        p == i + Len(kw) + w
    IN IF p <= Len(U) /\ Char(U, p) # ";" THEN p ELSE p - 1

\* re.search(kw + r'\s+([^;]+)', s) with U = s.upper() for re.IGNORECASE
\* (U = s for a case-sensitive search): group 1 of the leftmost match, or None
clause_search(s, U, kw) ==
    IF \E i \in 1..Len(U) : ClauseMatchAt(U, i, kw)
    THEN LET i0 == CHOOSE i \in 1..Len(U) :
                       /\ ClauseMatchAt(U, i, kw)
                       /\ \A j \in 1..(i - 1) : ~ClauseMatchAt(U, j, kw)
             start == ClauseStart(U, i0, kw)
         IN Str(SubSeq(s, start, Find(s, start, ";") - 1))
    ELSE None

\* re.search(r'WHERE\s+([^;]+)', sql)
where_match(sql) == clause_search(sql, sql, "WHERE")

\* re.search(r'[A-Z_]+\([^)]+\)', clause)
has_function_call(clause) ==
    \E p \in 1..Len(clause) :
        /\ Char(clause, p) \in UpperSet \cup {"_"}
        /\ p + 2 <= Len(clause)
        /\ Char(clause, p + 1) = "("
        /\ Char(clause, p + 2) # ")"
        /\ Find(clause, p + 3, ")") <= Len(clause)

\* variant: aggregate queries are not exempted from the WHERE rule
has_aggregate_never(sql) == FALSE

\* re.search(r'(COUNT|SUM|AVG|MAX|MIN)\(', sql)
has_aggregate(sql) ==
    \E kw \in {"COUNT", "SUM", "AVG", "MAX", "MIN"} : Contains(sql, kw \o "(")

\* re.search(r'FROM\s*\([^)]+SELECT', sql, re.IGNORECASE)
has_subquery(sql) ==
    \E i \in 1..Len(sql) :
        /\ MatchAt(sql, i, "FROM")
        /\ LET p == i + 4 + SpaceRun(sql, i + 4)
           IN /\ p <= Len(sql)
              /\ Char(sql, p) = "("
              /\ \E k \in (p + 2)..Len(sql) :
                    MatchAt(sql, k, "SELECT") /\ Find(sql, p + 1, ")") >= k

\* the rules of the try block, in source order
structure_rules(sql) ==
    (IF has_select_star(sql)
     THEN << QueryProblem("SELECT_STAR", "MEDIUM",
                 "SELECT * may return unneeded columns",
                 "name the needed columns", "SELECT *") >>
     ELSE << >>)
    \o
    (IF has_or_token(sql) /\ Contains(sql, "WHERE")
     THEN << QueryProblem("OR_CONDITION", "LOW",
                 "OR condition may defeat the index",
                 "consider UNION ALL instead of OR", "found OR condition") >>
     ELSE << >>)
    \o
    (IF has_like_prefix_wildcard(sql)
     THEN << QueryProblem("LIKE_PREFIX_WILDCARD", "HIGH",
                 "LIKE with prefix wildcard cannot use the index",
                 "avoid the prefix wildcard", "LIKE '%...'") >>
     ELSE << >>)
    \o
    (LET m == where_match(sql)
     IN IF m # None /\ has_function_call(m.value)
        THEN << QueryProblem("FUNCTION_IN_WHERE", "MEDIUM",
                    "function in WHERE clause may defeat the index",
                    "move the function to the other side of the comparison",
                    "WHERE clause contains function") >>
        ELSE << >>)
    \o
    (IF /\ StartsWith(sql, "SELECT")
        /\ ~Contains(sql, "WHERE")
        /\ ~Contains(sql, "JOIN")
        /\ ~has_aggregate(sql)
     THEN << QueryProblem("NO_WHERE_CLAUSE", "HIGH",
                 "SELECT query without WHERE condition",
                 "add a WHERE condition", "missing WHERE condition") >>
     ELSE << >>)
    \o
    (IF has_subquery(sql)
     THEN << QueryProblem("SUBQUERY_INEFFICIENT", "MEDIUM",
                 "found subquery, may affect performance",
                 "consider a CTE or a JOIN", "found subquery") >>
     ELSE << >>)

\* the rules applied to the upper-cased text; the results on the texts of the
\* model, tabulated once
RulesCache ==
    [text \in {t.value : t \in (SqlTexts \cup OtherTexts) \ {None}} |->
        structure_rules(Upper(text))]

rules_of(text) == RulesCache[text]

\* variant: the failure of parse(...)[0] is not caught
_analyze_sql_structure_propagating(q) ==
    IF q.query_text = None THEN Raised("AttributeError")
    ELSE IF Len(sqlparse_parse(q.query_text.value)) = 0 THEN Raised("IndexError")
    ELSE Returned(rules_of(q.query_text.value))

\* query_text.upper() is evaluated before the try block: a null text raises
\* AttributeError out of the pass; inside the try block only parse(...)[0]
\* can fail (IndexError), before any rule has run, and is caught and logged
_analyze_sql_structure(q) ==
    IF q.query_text = None THEN Raised("AttributeError")
    ELSE IF Len(sqlparse_parse(q.query_text.value)) = 0 THEN Returned(<< >>)
    ELSE Returned(rules_of(q.query_text.value))

\* variant: the markers are looked for without upper-casing the plan's text
_analyze_execution_plan_case_sensitive(plan) ==
    IF Contains(plan.value, "OLAP_SCAN") \/ Contains(plan.value, "FULL_SCAN")
    THEN << QueryProblem("FULL_TABLE_SCAN", "MEDIUM",
                "execution plan shows a possible full table scan",
                "check whether an index or partition pruning applies",
                "execution plan contains full table scan") >>
    ELSE << >>

_analyze_execution_plan(plan) ==
    LET plan_str == Upper(plan.value)
    IN IF Contains(plan_str, "OLAP_SCAN") \/ Contains(plan_str, "FULL_SCAN")
       THEN << QueryProblem("FULL_TABLE_SCAN", "MEDIUM",
                   "execution plan shows a possible full table scan",
                   "check whether an index or partition pruning applies",
                   "execution plan contains full table scan") >>
       ELSE << >>

\* variant: the plan pass run before the lexical structure pass
analyze_query_plan_first(self, q, plan) ==
    LET structure == _analyze_sql_structure(q)
    IN IF structure.status = "raised" THEN structure
       ELSE Returned(_analyze_execution_time(q)
                     \o _analyze_scan_data(self, q)
                     \o (IF Truthy(plan) THEN _analyze_execution_plan(plan) ELSE << >>)
                     \o structure.ret)

\* variant: the problem list kept on the instance and never reset
analyze_query_accumulating(self, q, plan) ==
    LET structure == _analyze_sql_structure(q)
    IN IF structure.status = "raised" THEN structure
       ELSE Returned(problems.ret
                     \o _analyze_execution_time(q)
                     \o _analyze_scan_data(self, q)
                     \o structure.ret
                     \o (IF Truthy(plan) THEN _analyze_execution_plan(plan) ELSE << >>))

analyze_query(self, q, plan) ==
    LET structure == _analyze_sql_structure(q)
    IN IF structure.status = "raised" THEN structure
       ELSE Returned(_analyze_execution_time(q)
                     \o _analyze_scan_data(self, q)
                     \o structure.ret
                     \o (IF Truthy(plan) THEN _analyze_execution_plan(plan) ELSE << >>))

-----------------------------------------------------------------------------
(* optimization_suggester.py *)

OptimizationSuggestion(title, desc, prio, cat, sql, suggested, improvement, notes) ==
    [title |-> title, description |-> desc, priority |-> prio,
     category |-> cat, original_sql |-> sql, suggested_sql |-> suggested,
     estimated_improvement |-> improvement, implementation_notes |-> notes]

\* [a-zA-Z_]
AlphaSet == UpperSet \cup LowerSet \cup {"_"}

Range(f) == {f[i] : i \in DOMAIN f}

Min(S) == CHOOSE x \in S : \A y \in S : x <= y
Max(S) == CHOOSE x \in S : \A y \in S : x >= y

\* first position >= i holding a character of set, or Len(s)+1
RECURSIVE FindIn(_, _, _)
FindIn(s, i, set) ==
    IF i > Len(s) THEN Len(s) + 1
    ELSE IF Char(s, i) \in set THEN i ELSE FindIn(s, i + 1, set)

\* last position of the run of \w characters that starts at position i
RECURSIVE WordEnd(_, _)
WordEnd(s, i) == IF IsWordAt(s, i + 1) THEN WordEnd(s, i + 1) ELSE i

\* re.findall(r'\b([a-zA-Z_][a-zA-Z0-9_]*)\b', s), scanning from position i
RECURSIVE identifiers(_, _)
identifiers(s, i) ==
    IF i > Len(s) THEN << >>
    ELSE IF Char(s, i) \in AlphaSet /\ Boundary(s, i)
    THEN << SubSeq(s, i, WordEnd(s, i)) >> \o identifiers(s, WordEnd(s, i) + 1)
    ELSE identifiers(s, i + 1)

\* re.findall(r'\b([a-zA-Z_][a-zA-Z0-9_]*)\s*[=<>!]', s), scanning from i
RECURSIVE compared_identifiers(_, _)
compared_identifiers(s, i) ==
    IF i > Len(s) THEN << >>
    ELSE LET e == WordEnd(s, i)
             o == e + 1 + SpaceRun(s, e + 1)
         IN IF /\ Char(s, i) \in AlphaSet
               /\ Boundary(s, i)
               /\ o <= Len(s)
               /\ Char(s, o) \in {"=", "<", ">", "!"}
            THEN << SubSeq(s, i, e) >> \o compared_identifiers(s, o + 1)
            ELSE compared_identifiers(s, i + 1)

\* re.split(r'ORDER BY|GROUP BY', s, flags=re.IGNORECASE)[0]
before_order_or_group(s) ==
    LET U == Upper(s)
        hits == {i \in 1..Len(s) : MatchAt(U, i, "ORDER BY") \/ MatchAt(U, i, "GROUP BY")}
    IN IF hits = {} THEN s ELSE SubSeq(s, 1, Min(hits) - 1)

_extract_where_columns(sql) ==
    LET where_match_i == clause_search(sql, Upper(sql), "WHERE")
    IN IF where_match_i # None
       THEN compared_identifiers(before_order_or_group(where_match_i.value), 1)
       ELSE << >>

_extract_order_columns(sql) ==
    LET order_match == clause_search(sql, Upper(sql), "ORDER BY")
    IN IF order_match # None THEN identifiers(order_match.value, 1) ELSE << >>

\* length of the match of (?:JOIN|WHERE|GROUP BY|ORDER BY|$) at position k of
\* the upper-cased text, or -1; $ matches at the end and before a final newline
TerminatorLen(U, k) ==
    CASE MatchAt(U, k, "JOIN") -> 4
      [] MatchAt(U, k, "WHERE") -> 5
      [] MatchAt(U, k, "GROUP BY") -> 8
      [] MatchAt(U, k, "ORDER BY") -> 8
      [] k = Len(U) + 1 -> 0
      [] k = Len(U) /\ Char(U, k) = "\n" -> 0
      [] OTHER -> -1

\* the ends k > st of the lazy group ([^;]+?) that starts at st
GroupEnds(U, st) == {k \in (st + 1)..Find(U, st, ";") : TerminatorLen(U, k) >= 0}

\* the starts of group 1 of ON\s+([^;]+?)(?:...) matched at position i: \s+
\* takes one or more characters of the whitespace run
GroupStarts(U, i) ==
    {st \in (i + 3)..(i + 2 + SpaceRun(U, i + 2)) :
        st <= Len(U) /\ Char(U, st) # ";" /\ GroupEnds(U, st) # {}}

\* re.findall(r'ON\s+([^;]+?)(?:JOIN|WHERE|GROUP BY|ORDER BY|$)', s,
\* re.IGNORECASE), scanning from position i; U = s.upper()
RECURSIVE on_clauses(_, _, _)
on_clauses(s, U, i) ==
    IF i > Len(s) THEN << >>
    ELSE IF MatchAt(U, i, "ON") /\ GroupStarts(U, i) # {}
    THEN LET st == Max(GroupStarts(U, i))
             k == Min(GroupEnds(U, st))
         IN << SubSeq(s, st, k - 1) >> \o on_clauses(s, U, k + TerminatorLen(U, k))
    ELSE on_clauses(s, U, i + 1)

\* tokens of all the matches, in order
RECURSIVE identifiers_of_all(_, _)
identifiers_of_all(matches, i) ==
    IF i > Len(matches) THEN << >>
    ELSE identifiers(matches[i], 1) \o identifiers_of_all(matches, i + 1)

_extract_join_columns(sql) == identifiers_of_all(on_clauses(sql, Upper(sql), 1), 1)

\* re.findall(kw + r'\s+([^\s,;]+)', s, re.IGNORECASE), scanning from i
RECURSIVE keyword_tokens(_, _, _, _)
keyword_tokens(s, U, kw, i) ==
    IF i > Len(s) THEN << >>
    ELSE LET w == SpaceRun(U, i + Len(kw))
             p == i + Len(kw) + w
             e == FindIn(s, p, SpaceSet \cup {",", ";"}) - 1
         IN IF MatchAt(U, i, kw) /\ w >= 1 /\ e >= p
            THEN << SubSeq(s, p, e) >> \o keyword_tokens(s, U, kw, e + 1)
            ELSE keyword_tokens(s, U, kw, i + 1)

\* str.strip(chars)
RECURSIVE Strip(_, _)
Strip(s, chars) ==
    IF s = "" THEN ""
    ELSE IF Char(s, 1) \in chars THEN Strip(SubSeq(s, 2, Len(s)), chars)
    ELSE IF Char(s, Len(s)) \in chars THEN Strip(SubSeq(s, 1, Len(s) - 1), chars)
    ELSE s

\* the characters that table.strip removes; the backquote, which a string of
\* this language cannot hold, is left out: no text of the model contains one
StripChars == {"\"", "[", "]"}

\* the tables appended for the matches of one keyword
RECURSIVE tables_of(_, _)
tables_of(matches, i) ==
    IF i > Len(matches) THEN << >>
    ELSE LET table == Strip(matches[i], StripChars)
         IN (IF table # "" /\ Upper(table) \notin {"WHERE", "ON", "SELECT", "AS"}
             THEN << table >> ELSE << >>)
            \o tables_of(matches, i + 1)

\* the list `tables` before list(set(tables))
table_list(sql) ==
    LET U == Upper(sql)
    IN tables_of(keyword_tokens(sql, U, "FROM", 1), 1)
       \o tables_of(keyword_tokens(sql, U, "JOIN", 1), 1)
       \o tables_of(keyword_tokens(sql, U, "INTO", 1), 1)
       \o tables_of(keyword_tokens(sql, U, "UPDATE", 1), 1)
       \o tables_of(keyword_tokens(sql, U, "TABLE", 1), 1)

\* the elements of a list without repetitions, in order of first occurrence
RECURSIVE Dedupe(_)
Dedupe(lst) ==
    IF lst = << >> THEN << >>
    ELSE LET front == Dedupe(SubSeq(lst, 1, Len(lst) - 1))
         IN IF lst[Len(lst)] \in Range(front) THEN front
            ELSE Append(front, lst[Len(lst)])

Reverse(lst) == [i \in 1..Len(lst) |-> lst[Len(lst) + 1 - i]]

\* list(set(lst)): the distinct elements in the iteration order of a set of
\* strings, which depends on the string hash seed of the process; two orders
\* stand for the possible ones
HashSeeds == {0, 1}

\* variant: the list kept as it is, duplicates included
list_of_set_keeping_duplicates(lst) == lst

list_of_set(lst) == IF hash_seed = 0 THEN Dedupe(lst) ELSE Reverse(Dedupe(lst))

\* re.sub(r"LIKE\s+['\"]%", "LIKE '", s, flags=re.IGNORECASE), from position i
RECURSIVE like_sub(_, _, _)
like_sub(s, U, i) ==
    IF i > Len(s) THEN ""
    ELSE LET p == i + 4 + SpaceRun(U, i + 4)
         IN IF /\ MatchAt(U, i, "LIKE")
               /\ p > i + 4
               /\ p + 1 <= Len(s)
               /\ Char(s, p) \in {"'", "\""}
               /\ Char(s, p + 1) = "%"
            THEN "LIKE '" \o like_sub(s, U, p + 2)
            ELSE Char(s, i) \o like_sub(s, U, i + 1)

\* what the handlers extract from a text
extract(sql) ==
    [where_columns |-> _extract_where_columns(sql),
     order_columns |-> _extract_order_columns(sql),
     join_columns |-> _extract_join_columns(sql),
     columns |-> _extract_where_columns(sql) \o _extract_order_columns(sql)
                 \o _extract_join_columns(sql),
     tables |-> table_list(sql),
     like |-> like_sub(sql, Upper(sql), 1)]

\* the extractions on the texts of the model, tabulated once
ExtractCache ==
    [text \in {t.value : t \in (SqlTexts \cup OtherTexts) \ {None}} |-> extract(text)]

extract_of(sql) == ExtractCache[sql]

_extract_table_names(sql) == list_of_set(extract_of(sql).tables)

\* sep.join(lst)
RECURSIVE Join(_, _)
Join(lst, sep) ==
    IF lst = << >> THEN ""
    ELSE IF Len(lst) = 1 THEN lst[1]
    ELSE lst[1] \o sep \o Join(Tail(lst), sep)

\* the placeholder of the index template when no column was extracted
ColumnsPlaceholder == "<related columns>"

\* if not columns: columns = [placeholder]
or_placeholder(columns) == IF columns = << >> THEN << ColumnsPlaceholder >> ELSE columns

\* the columns named by the index template
index_columns(sql) == or_placeholder(list_of_set(extract_of(sql).columns))

\* the suggestion of the index handler for the columns joined by ', '
index_suggestion(q, names) ==
    OptimizationSuggestion("add index",
        "execution time too long (" \o Fmt2(q.execution_time) \o "s), add an index",
        "HIGH", "INDEX", q.query_text,
        Str("-- index suggestion\nCREATE INDEX idx_optimization ON your_table ("
            \o names \o ");"),
        Str("50%-90% better query performance"),
        Str("1. check the selectivity of " \o names
            \o "\n2. consider a composite index\n3. analyse index usage"))

\* the suggestion of the column handler for the list of extracted tables
columns_suggestion(q, tables) ==
    OptimizationSuggestion("avoid SELECT *",
        "SELECT * returns all columns", "MEDIUM", "QUERY", q.query_text,
        Str("-- name the columns\nSELECT col1, col2, col3 FROM "
            \o (IF tables # << >> THEN tables[1] ELSE "your_table") \o " WHERE ...;"),
        Str("30%-70% less data transferred"),
        Str("1. select only the needed columns\n2. avoid large fields\n3. less memory"))

\* variant: the priority of the index suggestion follows the problem's severity
_suggest_index_optimization_by_severity(q, problem) ==
    IF q.query_text = None THEN Raised("TypeError")
    ELSE Returned(<< [index_suggestion(q, Join(index_columns(q.query_text.value), ", "))
                        EXCEPT !.priority = problem.severity] >>)

\* the re functions raise TypeError on a null text
_suggest_index_optimization(q, problem) ==
    IF q.query_text = None THEN Raised("TypeError")
    ELSE Returned(<< index_suggestion(q, Join(index_columns(q.query_text.value), ", ")) >>)

_suggest_specific_columns(q, problem) ==
    IF q.query_text = None THEN Raised("TypeError")
    ELSE Returned(<< columns_suggestion(q, _extract_table_names(q.query_text.value)) >>)

_suggest_like_optimization(q, problem) ==
    IF q.query_text = None THEN Raised("TypeError")
    ELSE Returned(<< OptimizationSuggestion("optimize LIKE",
            "LIKE with prefix wildcard cannot use the index",
            "HIGH", "QUERY", q.query_text,
            Str(extract_of(q.query_text.value).like),
            Str("index hit rate from 0% to nearly 100%"),
            Str("1. use a suffix wildcard\n2. or a full-text index\n3. or an inverted index")) >>)

_suggest_or_replacement(q, problem) ==
    Returned(<< OptimizationSuggestion("replace OR by UNION ALL",
        "OR condition may defeat the index", "LOW", "QUERY", q.query_text,
        Str("-- use UNION ALL instead of OR\nSELECT * FROM table1 WHERE condition1\nUNION ALL\nSELECT * FROM table1 WHERE condition2;"),
        Str("index hit rate may rise 20%-50%"),
        Str("1. test both forms\n2. UNION ALL when the conditions are exclusive\n3. UNION when they may overlap")) >>)

_suggest_function_optimization(q, problem) ==
    Returned(<< OptimizationSuggestion("avoid functions in WHERE",
        "functions prevent index use", "MEDIUM", "QUERY", q.query_text,
        Str("-- example: move the function to the other side\n-- before: WHERE YEAR(created_at) = 2023\n-- after: WHERE created_at >= '2023-01-01' AND created_at < '2024-01-01'"),
        Str("index hit rate from 0% to 100%"),
        Str("1. apply the function to the constant\n2. use a range query\n3. consider a computed column index")) >>)

_suggest_row_reduction(q, problem) ==
    Returned(<< OptimizationSuggestion("reduce scanned rows",
        "scans " \o scan_rows_formatted(q) \o " rows, far above the limit",
        "HIGH", "QUERY", q.query_text,
        Str("-- reduce the scanned rows\n-- rows scanned now: " \o scan_rows_formatted(q)
            \o "\n\n1. add a more precise WHERE condition\n2. use partition pruning\n3. use a covering index\n4. consider a partitioning strategy"),
        Str("50%-99% fewer scanned rows"),
        Str("1. find the bottleneck in the plan\n2. add a WHERE condition\n3. create a composite index")) >>)

_suggest_cte_or_join(q, problem) ==
    Returned(<< OptimizationSuggestion("turn subquery into CTE or JOIN",
        "subqueries may cause performance problems", "MEDIUM", "QUERY",
        q.query_text,
        Str("-- use a CTE (WITH clause) or a JOIN\n-- CTE example:\nWITH cte1 AS (\n    SELECT ... FROM table1 WHERE ...\n),\ncte2 AS (\n    SELECT ... FROM table2 WHERE ...\n)\nSELECT ... FROM cte1 JOIN cte2 ON ...;"),
        Str("20%-60% better performance"),
        Str("1. check whether the subquery can become a JOIN\n2. use a CTE for readability\n3. test before and after")) >>)

\* variant: a type without handler is an error
_generate_suggestion_for_problem_strict(q, problem) ==
    CASE problem.problem_type = "FULL_TABLE_SCAN" -> _suggest_index_optimization(q, problem)
      [] problem.problem_type = "SELECT_STAR" -> _suggest_specific_columns(q, problem)
      [] problem.problem_type = "LIKE_PREFIX_WILDCARD" -> _suggest_like_optimization(q, problem)
      [] problem.problem_type = "OR_CONDITION" -> _suggest_or_replacement(q, problem)
      [] problem.problem_type = "FUNCTION_IN_WHERE" -> _suggest_function_optimization(q, problem)
      [] problem.problem_type = "TOO_MANY_ROWS" -> _suggest_row_reduction(q, problem)
      [] problem.problem_type = "SUBQUERY_INEFFICIENT" -> _suggest_cte_or_join(q, problem)
      [] OTHER -> Raised("ValueError")

\* the outcome for one problem: a suggestion, nothing (None), or an exception
_generate_suggestion_for_problem(q, problem) ==
    CASE problem.problem_type = "FULL_TABLE_SCAN" -> _suggest_index_optimization(q, problem)
      [] problem.problem_type = "SELECT_STAR" -> _suggest_specific_columns(q, problem)
      [] problem.problem_type = "LIKE_PREFIX_WILDCARD" -> _suggest_like_optimization(q, problem)
      [] problem.problem_type = "OR_CONDITION" -> _suggest_or_replacement(q, problem)
      [] problem.problem_type = "FUNCTION_IN_WHERE" -> _suggest_function_optimization(q, problem)
      [] problem.problem_type = "TOO_MANY_ROWS" -> _suggest_row_reduction(q, problem)
      [] problem.problem_type = "SUBQUERY_INEFFICIENT" -> _suggest_cte_or_join(q, problem)
      [] OTHER -> Returned(<< >>)

\* variant of the loop: one suggestion per problem type
RECURSIVE suggestions_from_collapsed(_, _, _, _)
suggestions_from_collapsed(q, ps, i, done) ==
    IF i > Len(ps) THEN Returned(done)
    ELSE LET one == _generate_suggestion_for_problem(q, ps[i])
         IN IF one.status = "raised" THEN one
            ELSE IF \E j \in 1..(i - 1) : ps[j].problem_type = ps[i].problem_type
            THEN suggestions_from_collapsed(q, ps, i + 1, done)
            ELSE suggestions_from_collapsed(q, ps, i + 1, done \o one.ret)

\* the loop of generate_suggestions over problems[i..], after `done`
RECURSIVE suggestions_from(_, _, _, _)

\* the rest of the loop once problems[i] gave `one`
suggestions_after(q, ps, i, done, one) ==
    IF one.status = "raised" THEN one
    ELSE suggestions_from(q, ps, i + 1, done \o one.ret)

suggestions_from(q, ps, i, done) ==
    IF i > Len(ps) THEN Returned(done)
    ELSE suggestions_after(q, ps, i, done, _generate_suggestion_for_problem(q, ps[i]))

\* variant: problems of one type collapsed into one suggestion
generate_suggestions_collapsed(q, ps) == suggestions_from_collapsed(q, ps, 1, << >>)

generate_suggestions(q, ps) == suggestions_from(q, ps, 1, << >>)

-----------------------------------------------------------------------------
(* Inputs *)

Plans ==
    {None,
     Dict("{}"),
     Dict("{'node': 'HASH_JOIN'}"),
     Dict("{'node': 'olap_scan_node'}"),
     Str("FULL_SCAN on t")}

\* variant: the MEDIUM bucket starts above 1 s instead of at 1 s
severity_gt(self) ==
    IF self.execution_time >= CriticalTime THEN "CRITICAL"
    ELSE IF self.execution_time >= HighTime THEN "HIGH"
    ELSE IF self.execution_time > MediumTime THEN "MEDIUM"
    ELSE "LOW"

\* SlowQueryInfo.severity: the bucket of the record's execution time
severity(self) ==
    IF self.execution_time >= CriticalTime THEN "CRITICAL"
    ELSE IF self.execution_time >= HighTime THEN "HIGH"
    ELSE IF self.execution_time >= MediumTime THEN "MEDIUM"
    ELSE "LOW"

\* the optimization section of the configuration
Configs ==
    {None,
     [max_scan_rows |-> 1000, max_scan_bytes |-> 4096, suggest_indexes |-> 1]}

\* execution times around the 5 s and 10 s limits
Times == {20, HighTime - 1, HighTime, CriticalTime - 1, CriticalTime}

SlowQueryInfo(text, time, rows, bytes, mem) ==
    [query_text |-> text, execution_time |-> time, scan_rows |-> rows,
     scan_bytes |-> bytes, memory_used |-> mem]

\* records whose metrics lie at and around the limits of the analyzer
Records(self) ==
    {SlowQueryInfo(text, time, rows, bytes, mem) :
        text \in SqlTexts, time \in Times,
        rows \in {100, self.max_scan_rows, self.max_scan_rows + 1},
        bytes \in {self.max_scan_bytes, self.max_scan_bytes + 1},
        mem \in {MemoryLimit, MemoryLimit + 1}}

\* records and plans the instance analyses between two calls on one triple
OtherCalls ==
    {[query_info |-> SlowQueryInfo(Str("SELECT * FROM big WHERE f(a) = 1 OR b = 2"),
                                   CriticalTime, DefaultMaxScanRows + 1,
                                   DefaultMaxScanBytes + 1, MemoryLimit + 1),
      execution_plan |-> Str("OLAP_SCAN")],
     [query_info |-> SlowQueryInfo(Str("SELECT id FROM t WHERE id=1"), 20, 100, 0, 0),
      execution_plan |-> None]}

\* problem lists handed to the suggester directly: any types, any order
MaxProblems == 2

ArbitraryProblem(t, sev) == QueryProblem(t, sev, "description", "suggestion", "evidence")

ProblemPool ==
    {ArbitraryProblem(t, "HIGH") : t \in ProblemType}
    \cup {ArbitraryProblem(t, "LOW") : t \in {"FULL_TABLE_SCAN", "TOO_MANY_ROWS", "NO_INDEX"}}

ProblemLists == UNION {[1..n -> ProblemPool] : n \in 0..MaxProblems}

SuggestRecords ==
    {SlowQueryInfo(text, time, rows, 0, 0) :
        text \in {None, Str(""), Str("SELECT * FROM orders WHERE status = 'pending'"),
                  Str("SELECT * FROM a JOIN b ON a.id = b.id WHERE a.x > 1 ORDER BY a.y")},
        time \in {20, CriticalTime},
        rows \in {100, DefaultMaxScanRows + 1}}

-----------------------------------------------------------------------------
(* The detection pipeline *)

\* calls on other records between two calls on one triple
MaxOtherCalls == 2

NoCall == [query_info |-> None, execution_plan |-> None, outcome |-> NotCalled]

\* no call of the StarRocksSlowQueryAnalyzer is running
NoRun ==
    [op |-> "", pc |-> "idle", pattern_filter |-> None, limit |-> 0,
     slow_queries |-> << >>, i |-> 0, failed |-> {},
     problems_by_query |-> EmptyDict, suggestions_by_query |-> EmptyDict,
     report |-> None, result |-> NotCalled]

Init ==
    /\ \E config \in Configs : analyzer = QueryAnalyzer(config)
    /\ query_info \in Records(analyzer)
    /\ execution_plan \in Plans
    /\ problems = NotCalled
    /\ first_call = NoCall
    /\ between = 0
    /\ hash_seed \in HashSeeds
    /\ sug_problems = << >>
    /\ suggestions = NotCalled
    /\ derived_severity = NotCalled
    /\ threads = << >>
    /\ connection = None
    /\ log = << >>
    /\ run = NoRun

\* variant: the upper-cased text is stored back into the record
Analyze_storing_upper(q, plan) ==
    /\ query_info' = IF q.query_text = None THEN q
                     ELSE [q EXCEPT !.query_text = Str(Upper(q.query_text.value))]
    /\ execution_plan' = plan
    /\ problems' = analyze_query(analyzer, q, plan)
    /\ first_call' = IF first_call = NoCall
                     THEN [query_info |-> q, execution_plan |-> plan,
                           outcome |-> problems']
                     ELSE first_call
    /\ sug_problems' = << >>
    /\ suggestions' = NotCalled
    /\ UNCHANGED <<analyzer, hash_seed, derived_severity,
                   threads, connection, log, run>>

\* the instance analyses (q, plan)
Analyze(q, plan) ==
    /\ query_info' = q
    /\ execution_plan' = plan
    /\ problems' = analyze_query(analyzer, q, plan)
    /\ first_call' = IF first_call = NoCall
                     THEN [query_info |-> q, execution_plan |-> plan,
                           outcome |-> problems']
                     ELSE first_call
    /\ sug_problems' = << >>
    /\ suggestions' = NotCalled
    /\ UNCHANGED <<analyzer, hash_seed, derived_severity,
                   threads, connection, log, run>>

\* analyze_query on the record under analysis
AnalyzeQuery ==
    /\ Analyze(query_info, execution_plan)
    /\ UNCHANGED between

\* analyze_query on another record, between two calls on one triple
AnalyzeOther ==
    /\ first_call # NoCall
    /\ between < MaxOtherCalls
    /\ \E o \in OtherCalls : Analyze(o.query_info, o.execution_plan)
    /\ between' = between + 1

\* analyze_query again on the triple of the first call
AnalyzeAgain ==
    /\ first_call # NoCall
    /\ between > 0
    /\ Analyze(first_call.query_info, first_call.execution_plan)
    /\ UNCHANGED between

\* generate_suggestions on the problems analyze_query returned, as the
\* per-query loop of StarRocksSlowQueryAnalyzer.analyze calls it
GenerateSuggestions ==
    /\ problems.status = "returned"
    /\ suggestions = NotCalled
    /\ sug_problems' = problems.ret
    /\ suggestions' = generate_suggestions(query_info, problems.ret)
    /\ UNCHANGED <<analyzer, query_info, execution_plan, problems, first_call,
                   between, hash_seed, derived_severity,
                   threads, connection, log, run>>

Next == AnalyzeQuery \/ AnalyzeOther \/ AnalyzeAgain \/ GenerateSuggestions

Spec == Init /\ [][Next]_vars

-----------------------------------------------------------------------------
(* The suggester on its own: any record, any problem list *)

SuggestInit ==
    /\ analyzer = QueryAnalyzer(None)
    /\ query_info \in SuggestRecords
    /\ execution_plan = None
    /\ problems = NotCalled
    /\ first_call = NoCall
    /\ between = 0
    /\ hash_seed \in HashSeeds
    /\ sug_problems \in ProblemLists
    /\ suggestions = NotCalled
    /\ derived_severity = NotCalled
    /\ threads = << >>
    /\ connection = None
    /\ log = << >>
    /\ run = NoRun

GenerateSuggestionsFor ==
    /\ suggestions = NotCalled
    /\ suggestions' = generate_suggestions(query_info, sug_problems)
    /\ UNCHANGED <<analyzer, query_info, execution_plan, problems, first_call,
                   between, hash_seed, sug_problems, derived_severity,
                   threads, connection, log, run>>

SuggestNext == GenerateSuggestionsFor

SuggestSpec == SuggestInit /\ [][SuggestNext]_vars

-----------------------------------------------------------------------------
(* The derived severity of a record *)

\* the longest execution time of a record, in hundredths of a second (11 s)
MaxTime == 1100

\* records of every execution time from 0 to MaxTime; the other fields do
\* not enter the classification and take two values each
SeverityRecords ==
    {SlowQueryInfo(text, time, rows, 0, mem) :
        text \in {Str("SELECT id FROM t WHERE id=1"), Str("SELECT * FROM t")},
        time \in 0..MaxTime,
        rows \in {100, DefaultMaxScanRows + 1},
        mem \in {0, MemoryLimit + 1}}

SeverityInit ==
    /\ analyzer = QueryAnalyzer(None)
    /\ query_info \in SeverityRecords
    /\ execution_plan = None
    /\ problems = NotCalled
    /\ first_call = NoCall
    /\ between = 0
    /\ hash_seed \in HashSeeds
    /\ sug_problems = << >>
    /\ suggestions = NotCalled
    /\ derived_severity = NotCalled
    /\ threads = << >>
    /\ connection = None
    /\ log = << >>
    /\ run = NoRun

\* a reader (the statistics, a report) takes the severity of the record
ReadSeverity ==
    /\ derived_severity = NotCalled
    /\ threads = << >>
    /\ connection = None
    /\ log = << >>
    /\ run = NoRun
    /\ derived_severity' = Returned(severity(query_info))
    /\ UNCHANGED <<analyzer, query_info, execution_plan, problems, first_call,
                   between, hash_seed, sug_problems, suggestions,
                   threads, connection, log, run>>

SeverityNext == ReadSeverity

SeveritySpec == SeverityInit /\ [][SeverityNext]_vars

-----------------------------------------------------------------------------
(* starrocks_connector.py *)

\* a pymysql connection object: open until close() is called on it
Connection(closed) == [type |-> "Connection", closed |-> closed]

\* variant: disconnect() forgets the connection it closed
disconnect_resetting(conn) ==
    IF conn = None THEN [connection |-> conn, close |-> "not called"]
    ELSE IF conn.closed THEN [connection |-> None, close |-> "raised"]
    ELSE [connection |-> None, close |-> "returned"]

\* connect(): a new connection is stored when pymysql.connect succeeds (ok);
\* when it raises, the attribute keeps what it held and False is returned
connect(conn, ok) ==
    [connection |-> IF ok THEN Connection(FALSE) ELSE conn, ret |-> ok]

\* disconnect(): close() on the connection the attribute holds, if any; the
\* attribute keeps the closed object; close() on a closed connection raises
disconnect(conn) ==
    IF conn = None THEN [connection |-> conn, close |-> "not called"]
    ELSE IF conn.closed THEN [connection |-> conn, close |-> "raised"]
    ELSE [connection |-> Connection(TRUE), close |-> "returned"]

\* what the server gives for a statement: rows, or a failure
DbRows(rows) == [failed |-> FALSE, rows |-> rows]
DbError == [failed |-> TRUE, rows |-> << >>]

\* the try block of execute_query on the connection conn: the cursor of a
\* closed connection raises, a failure of the server raises, and every
\* exception gives the empty list
run_statement(conn, db) ==
    [statement |-> IF conn.closed THEN "on closed connection" ELSE "on open connection",
     ret |-> IF conn.closed \/ db.failed THEN << >> ELSE db.rows]

\* execute_query() once its connect(), if it made one, gave c
execute_after_connect(before, c, called, db) ==
    IF called /\ ~c.ret
    THEN [op |-> "execute_query", before |-> before, connection |-> c.connection,
          server |-> db,
          connect |-> "failed", statement |-> "not run", ret |-> << >>]
    ELSE [op |-> "execute_query", before |-> before, connection |-> c.connection,
          server |-> db,
          connect |-> IF called THEN "succeeded" ELSE "not called",
          statement |-> run_statement(c.connection, db).statement,
          ret |-> run_statement(c.connection, db).ret]

\* execute_query(): connects first when the attribute is None; ok is the
\* outcome that connect would have, db the result the server would give
execute_query(conn, ok, db) ==
    IF conn = None
    THEN execute_after_connect(conn, connect(conn, ok), TRUE, db)
    ELSE execute_after_connect(conn, [connection |-> conn, ret |-> TRUE], FALSE, db)

\* calls made on one connector
MaxCalls == 4

ConnectorRows == {<< >>, << "row" >>}

ConnectorInit ==
    /\ analyzer = QueryAnalyzer(None)
    /\ query_info = None
    /\ execution_plan = None
    /\ problems = NotCalled
    /\ first_call = NoCall
    /\ between = 0
    /\ hash_seed = 0
    /\ sug_problems = << >>
    /\ suggestions = NotCalled
    /\ derived_severity = NotCalled
    /\ threads = << >>
    /\ connection = None
    /\ log = << >>
    /\ run = NoRun

ConnectorFrame ==
    UNCHANGED <<analyzer, query_info, execution_plan, problems, first_call,
                between, hash_seed, sug_problems, suggestions,
                derived_severity, threads, run>>

\* the caller calls connect()
Connect ==
    /\ Len(log) < MaxCalls
    /\ \E ok \in BOOLEAN :
          /\ connection' = connect(connection, ok).connection
          /\ log' = Append(log, [op |-> "connect", ok |-> ok])
    /\ ConnectorFrame

\* the caller calls disconnect()
Disconnect ==
    /\ Len(log) < MaxCalls
    /\ connection' = disconnect(connection).connection
    /\ log' = Append(log, [op |-> "disconnect", close |-> disconnect(connection).close])
    /\ ConnectorFrame

\* the caller calls execute_query()
ExecuteQuery ==
    /\ Len(log) < MaxCalls
    /\ \E ok \in BOOLEAN, db \in {DbRows(rows) : rows \in ConnectorRows} \cup {DbError} :
          /\ connection' = execute_query(connection, ok, db).connection
          /\ log' = Append(log, execute_query(connection, ok, db))
    /\ ConnectorFrame

ConnectorNext == Connect \/ Disconnect \/ ExecuteQuery

ConnectorSpec == ConnectorInit /\ [][ConnectorNext]_vars

-----------------------------------------------------------------------------
(* slow_query_collector.py and starrocks_slow_query_analyzer.py *)

Num(n) == [type |-> "float", value |-> n]

\* a row of the query log as the cursor returns it; the columns the model
\* leaves out are absent and take their defaults
Row(id, text, time) == [query_id |-> id, query_text |-> text, execution_time |-> time]

\* rows: two queries, a second row under the identifier of the first, a row
\* with a null text and a row whose execution time is null
RowPool ==
    {Row("q1", Str("SELECT * FROM orders WHERE status = 'pending'"), Num(CriticalTime)),
     Row("q2", Str("select * from t where a = 1 or b = 2"), Num(120)),
     Row("q1", Str("select * from t where a = 1 or b = 2"), Num(120)),
     Row("q3", None, Num(CriticalTime)),
     Row("q4", Str("SELECT id FROM t WHERE id=1"), None)}

\* rows one statement returns
MaxRows == 3

RowLists == UNION {[1..n -> RowPool] : n \in 0..MaxRows}

\* SlowQueryInfo(...) of one row: float(None) raises TypeError
query_of_row(row) ==
    IF row.execution_time = None THEN Raised("TypeError")
    ELSE Returned([query_id |-> row.query_id, query_text |-> row.query_text,
                   execution_time |-> row.execution_time.value,
                   scan_rows |-> Get(row, "scan_rows", 0),
                   scan_bytes |-> Get(row, "scan_bytes", 0),
                   memory_used |-> Get(row, "memory_used", 0)])

\* variant of the loop: the first row that cannot be converted ends it
RECURSIVE queries_of_rows_until_failure(_, _)
queries_of_rows_until_failure(results, i) ==
    IF i > Len(results) THEN << >>
    ELSE IF query_of_row(results[i]).status = "raised" THEN << >>
    ELSE << query_of_row(results[i]).ret >> \o queries_of_rows_until_failure(results, i + 1)

\* the loop of collect_slow_queries over results[i..]: a row that cannot be
\* converted is logged and skipped
RECURSIVE queries_of_rows(_, _)
queries_of_rows(results, i) ==
    IF i > Len(results) THEN << >>
    ELSE IF query_of_row(results[i]).status = "raised"
    THEN queries_of_rows(results, i + 1)
    ELSE << query_of_row(results[i]).ret >> \o queries_of_rows(results, i + 1)

\* variant: the first row that cannot be converted ends the collection
collect_slow_queries_until_failure(results) == queries_of_rows_until_failure(results, 1)

\* collect_slow_queries on the rows execute_query returned
collect_slow_queries(results) == queries_of_rows(results, 1)

\* filter_by_pattern: q.query_text.upper() raises on a null text
filter_by_pattern(queries, pattern) ==
    IF \E k \in 1..Len(queries) : queries[k].query_text = None
    THEN Raised("AttributeError")
    ELSE Returned(SelectSeq(queries,
            LAMBDA q : Contains(Upper(q.query_text.value), Upper(pattern))))

\* d[k] = v on a dict
SetItem(d, k, v) == [x \in DOMAIN d \cup {k} |-> IF x = k THEN v ELSE d[x]]

\* queries[:limit]
Take(queries, limit) == SubSeq(queries, 1, Min({limit, Len(queries)}))

NoSlowQueries == "no slow queries"

Patterns == {None, Str("orders")}
Limits == {1, 10}

AppInit ==
    /\ \E config \in Configs : analyzer = QueryAnalyzer(config)
    /\ query_info = None
    /\ execution_plan = None
    /\ problems = NotCalled
    /\ first_call = NoCall
    /\ between = 0
    /\ hash_seed \in HashSeeds
    /\ sug_problems = << >>
    /\ suggestions = NotCalled
    /\ derived_severity = NotCalled
    /\ threads = << >>
    /\ connection = None
    /\ log = << >>
    /\ run = NoRun

AppFrame ==
    UNCHANGED <<analyzer, query_info, execution_plan, problems, first_call,
                between, hash_seed, sug_problems, suggestions,
                derived_severity, threads>>

\* the call goes on at pc, the connector untouched
GoOn(frame) ==
    /\ run' = frame
    /\ UNCHANGED <<connection, log>>
    /\ AppFrame

\* variant of the end of a call: disconnect() only when the call returns
Finish_on_return_only(frame, result) ==
    /\ run' = [frame EXCEPT !.pc = "done", !.result = result]
    /\ connection' = IF result.status = "returned"
                      THEN disconnect(connection).connection ELSE connection
    /\ log' = IF result.status = "returned"
               THEN Append(log, [op |-> "disconnect", close |-> disconnect(connection).close])
               ELSE log
    /\ AppFrame

\* the call leaves its try block with result: the finally clause calls
\* disconnect(), whose exception, if any, replaces the result
Finish(frame, result) ==
    /\ run' = [frame EXCEPT !.pc = "done",
                  !.result = IF disconnect(connection).close = "raised"
                             THEN Raised("pymysql.err.Error") ELSE result]
    /\ connection' = disconnect(connection).connection
    /\ log' = Append(log, [op |-> "disconnect", close |-> disconnect(connection).close])
    /\ AppFrame

\* analyze() or get_top_slow_queries() is called: lines 122-123 and 206-207,
\* connect() and the way out when it fails
Call ==
    /\ run.pc = "idle"
    /\ \E op \in {"analyze", "get_top_slow_queries"}, ok \in BOOLEAN,
          pattern \in Patterns, limit \in Limits :
          /\ connection' = connect(connection, ok).connection
          /\ log' = Append(log, [op |-> "connect", ok |-> ok])
          /\ run' = [NoRun EXCEPT
                        !.op = op,
                        !.pattern_filter = IF op = "analyze" THEN pattern ELSE None,
                        !.limit = IF op = "analyze" THEN 0 ELSE limit,
                        !.pc = IF ok THEN "collect" ELSE "done",
                        !.result = IF ok THEN NotCalled
                                   ELSE IF op = "analyze" THEN Raised("Exception")
                                   ELSE Returned(<< >>)]
    /\ AppFrame

\* a caller uses the collector on its own, without connecting first
CallCollector ==
    /\ run.pc = "idle"
    /\ GoOn([NoRun EXCEPT !.op = "collect_slow_queries", !.pc = "collect"])

\* the frame once collect_slow_queries returned queries: the orchestrator
\* goes on, the caller of the collector has its result
after_collect(frame, queries) ==
    [frame EXCEPT
        !.slow_queries = queries,
        !.pc = IF frame.op = "analyze" THEN "filter"
               ELSE IF frame.op = "get_top_slow_queries" THEN "top"
               ELSE "done",
        !.result = IF frame.op = "collect_slow_queries" THEN Returned(queries)
                   ELSE frame.result]

\* collect_slow_queries, lines 141-167 of the collector: the statement and
\* the conversion of its rows
Collect ==
    /\ run.pc = "collect"
    /\ \E ok \in BOOLEAN, db \in {DbRows(rows) : rows \in RowLists} \cup {DbError} :
          /\ connection' = execute_query(connection, ok, db).connection
          /\ log' = Append(log, execute_query(connection, ok, db))
          /\ run' = after_collect(run,
                        collect_slow_queries(execute_query(connection, ok, db).ret))
    /\ AppFrame

\* the frame and result after the pattern filter gave `filtered`
AfterFilter(filtered) ==
    IF filtered.status = "raised" THEN Finish(run, filtered)
    ELSE IF filtered.ret = << >>
    THEN Finish([run EXCEPT !.slow_queries = << >>], Returned(NoSlowQueries))
    ELSE GoOn([run EXCEPT !.slow_queries = filtered.ret, !.pc = "loop", !.i = 1])

\* analyze, lines 135-148: the pattern filter, the way out when no query is
\* left, the statistics and the empty mappings
Filter ==
    /\ run.pc = "filter"
    /\ AfterFilter(IF Truthy(run.pattern_filter)
                   THEN filter_by_pattern(run.slow_queries, run.pattern_filter.value)
                   ELSE Returned(run.slow_queries))

\* the frame after generate_suggestions on the problems of query gave s
after_suggestions(frame, query, s) ==
    IF s.status = "raised"
    THEN [frame EXCEPT !.failed = @ \cup {frame.i}, !.i = @ + 1]
    ELSE [frame EXCEPT
            !.suggestions_by_query = SetItem(@, query.query_id, s.ret),
            !.i = @ + 1]

\* variant of the loop: the first exception ends it
after_analysis_breaking(frame, query, p) ==
    IF p.status = "raised"
    THEN [frame EXCEPT !.failed = @ \cup {frame.i}, !.i = Len(frame.slow_queries) + 1]
    ELSE after_suggestions(
            [frame EXCEPT !.problems_by_query = SetItem(@, query.query_id, p.ret)],
            query, generate_suggestions(query, p.ret))

\* the frame after analyze_query(query) gave p
after_analysis(frame, query, p) ==
    IF p.status = "raised"
    THEN [frame EXCEPT !.failed = @ \cup {frame.i}, !.i = @ + 1]
    ELSE after_suggestions(
            [frame EXCEPT !.problems_by_query = SetItem(@, query.query_id, p.ret)],
            query, generate_suggestions(query, p.ret))

\* analyze, lines 150-162: one turn of the per-query loop
AnalyzeOne ==
    /\ run.pc = "loop"
    /\ run.i <= Len(run.slow_queries)
    /\ GoOn(after_analysis(run, run.slow_queries[run.i],
                           analyze_query(analyzer, run.slow_queries[run.i], None)))

\* analyze, lines 164-185: the report over the collected queries and the
\* mappings; generate_report returns a path or raises
GenerateReport ==
    /\ run.pc = "loop"
    /\ run.i > Len(run.slow_queries)
    /\ \E written \in BOOLEAN :
          Finish([run EXCEPT !.report =
                    [slow_queries |-> run.slow_queries,
                     problems_by_query |-> run.problems_by_query,
                     suggestions_by_query |-> run.suggestions_by_query]],
                 IF written THEN Returned("report path") ELSE Raised("OSError"))

\* get_top_slow_queries, lines 216-219
ReturnTop ==
    /\ run.pc = "top"
    /\ Finish(run, Returned(Take(run.slow_queries, run.limit)))

\* the call is over; the caller may call again
Return ==
    /\ run.pc = "done"
    /\ run' = NoRun
    /\ log' = << >>
    /\ UNCHANGED connection
    /\ AppFrame

AppNext ==
    \/ Call
    \/ CallCollector
    \/ Collect
    \/ Filter
    \/ AnalyzeOne
    \/ GenerateReport
    \/ ReturnTop
    \/ Return

AppSpec == AppInit /\ [][AppNext]_vars

-----------------------------------------------------------------------------
(* Calls running concurrently on one QueryAnalyzer and one OptimizationSuggester *)

Threads == {1, 2}

\* the frame of a thread that calls analyze_query(q, plan) and then
\* generate_suggestions(q, problems): the locals of the two calls
Frame(q, plan) ==
    [query_info |-> q, execution_plan |-> plan, pc |-> "analyze_query",
     problems |-> << >>, ret |-> NotCalled,
     i |-> 0, suggestions |-> << >>, sug |-> NotCalled,
     interleaved |-> FALSE]

\* the records and plans of the concurrent calls
ConcurrentRecords ==
    {SlowQueryInfo(text, time, DefaultMaxScanRows + 1, 0, 0) :
        text \in {Str(""), Str("select * from t where a = 1 or b = 2"),
                  Str("SELECT * FROM a JOIN b ON a.id = b.id WHERE a.x > 1 ORDER BY a.y")},
        time \in {20, CriticalTime}}

ConcurrentInit ==
    /\ \E config \in Configs : analyzer = QueryAnalyzer(config)
    /\ query_info = None
    /\ execution_plan = None
    /\ problems = NotCalled
    /\ first_call = NoCall
    /\ between = 0
    /\ hash_seed \in HashSeeds
    /\ sug_problems = << >>
    /\ suggestions = NotCalled
    /\ derived_severity = NotCalled
    /\ threads \in [Threads -> {Frame(q, plan) : q \in ConcurrentRecords,
                                                 plan \in {None, Str("FULL_SCAN on t")}}]
    /\ connection = None
    /\ log = << >>
    /\ run = NoRun

Running(f) == f.pc \notin {"analyze_query", "done"}

\* thread t takes a step that leaves its frame as f; the frame notes whether
\* another call was under way at that moment
Step(t, f) ==
    /\ threads' = [threads EXCEPT ![t] =
            [f EXCEPT !.interleaved =
                @ \/ \E u \in Threads \ {t} : Running(threads[u])]]
    /\ UNCHANGED <<analyzer, query_info, execution_plan, problems, first_call,
                   between, hash_seed, sug_problems, suggestions,
                   derived_severity, connection, log, run>>

\* analyze_query, line 86: problems = []
EnterAnalyze(t) ==
    /\ threads[t].pc = "analyze_query"
    /\ Step(t, [threads[t] EXCEPT !.problems = << >>, !.pc = "time"])

\* variant: the execution-time pass extends a list kept on the instance, which
\* every call under way sees
TimePass_shared_list(t) ==
    /\ threads[t].pc = "time"
    /\ threads' = [u \in Threads |->
            IF u = t \/ Running(threads[u])
            THEN [threads[u] EXCEPT
                    !.problems = @ \o _analyze_execution_time(threads[t].query_info),
                    !.pc = IF u = t THEN "scan" ELSE @]
            ELSE threads[u]]
    /\ UNCHANGED <<analyzer, query_info, execution_plan, problems, first_call,
                   between, hash_seed, sug_problems, suggestions,
                   derived_severity, connection, log, run>>

\* line 89: the execution-time pass
TimePass(t) ==
    /\ threads[t].pc = "time"
    /\ Step(t, [threads[t] EXCEPT
                  !.problems = @ \o _analyze_execution_time(threads[t].query_info),
                  !.pc = "scan"])

\* line 92: the scan-volume pass, which reads the limits of the instance
ScanPass(t) ==
    /\ threads[t].pc = "scan"
    /\ Step(t, [threads[t] EXCEPT
                  !.problems = @ \o _analyze_scan_data(analyzer, threads[t].query_info),
                  !.pc = "structure"])

\* the frame after the lexical structure pass gave `structure`
after_structure(f, structure) ==
    IF structure.status = "raised"
    THEN [f EXCEPT !.ret = structure, !.pc = "done"]
    ELSE [f EXCEPT !.problems = @ \o structure.ret, !.pc = "plan"]

\* line 95: the lexical structure pass
StructurePass(t) ==
    /\ threads[t].pc = "structure"
    /\ Step(t, after_structure(threads[t], _analyze_sql_structure(threads[t].query_info)))

\* lines 98-101: the plan pass if a plan was given, and the return
PlanPass(t) ==
    /\ threads[t].pc = "plan"
    /\ Step(t, [threads[t] EXCEPT
                  !.problems = @ \o (IF Truthy(threads[t].execution_plan)
                                     THEN _analyze_execution_plan(threads[t].execution_plan)
                                     ELSE << >>),
                  !.ret = Returned(threads[t].problems
                                   \o (IF Truthy(threads[t].execution_plan)
                                       THEN _analyze_execution_plan(threads[t].execution_plan)
                                       ELSE << >>)),
                  !.pc = "generate_suggestions"])

\* generate_suggestions, line 59: suggestions = []
EnterSuggest(t) ==
    /\ threads[t].pc = "generate_suggestions"
    /\ Step(t, [threads[t] EXCEPT !.suggestions = << >>, !.i = 1, !.pc = "loop"])

\* the frame after problems[i] gave `one`
after_problem(f, one) ==
    IF one.status = "raised"
    THEN [f EXCEPT !.sug = one, !.pc = "done"]
    ELSE [f EXCEPT !.suggestions = @ \o one.ret, !.i = @ + 1]

\* lines 61-64: one turn of the loop
SuggestOne(t) ==
    /\ threads[t].pc = "loop"
    /\ threads[t].i <= Len(threads[t].ret.ret)
    /\ Step(t, after_problem(threads[t],
            _generate_suggestion_for_problem(threads[t].query_info,
                                             threads[t].ret.ret[threads[t].i])))

\* line 66: return suggestions
ReturnSuggestions(t) ==
    /\ threads[t].pc = "loop"
    /\ threads[t].i > Len(threads[t].ret.ret)
    /\ Step(t, [threads[t] EXCEPT !.sug = Returned(threads[t].suggestions),
                                  !.pc = "done"])

ConcurrentNext ==
    \E t \in Threads :
        \/ EnterAnalyze(t)
        \/ TimePass(t)
        \/ ScanPass(t)
        \/ StructurePass(t)
        \/ PlanPass(t)
        \/ EnterSuggest(t)
        \/ SuggestOne(t)
        \/ ReturnSuggestions(t)

ConcurrentSpec == ConcurrentInit /\ [][ConcurrentNext]_vars

-----------------------------------------------------------------------------
(* Properties *)

Called == problems.status # "not called"
Done == problems.status = "returned"
HasText == query_info.query_text # None
Ret == problems.ret

OfType(ps, t) == SelectSeq(ps, LAMBDA p : p.problem_type = t)
OfTypeSeverity(ps, t, sev) ==
    SelectSeq(ps, LAMBDA p : p.problem_type = t /\ p.severity = sev)
ByEvidence(ps, prefix) == SelectSeq(ps, LAMBDA p : StartsWith(p.evidence, prefix))

\* the problems the execution-time pass contributed to a list
TimePassOf(ps) == ByEvidence(ps, "execution time:")

\* the supplied plan's text contains a scan marker
PlanHasMarker ==
    /\ Truthy(execution_plan)
    /\ \/ Contains(Upper(execution_plan.value), "OLAP_SCAN")
       \/ Contains(Upper(execution_plan.value), "FULL_SCAN")

B(cond) == IF cond THEN 1 ELSE 0

\* C1: for every record with SQL text and execution_time >= 10 s, whatever
\* the text, the other metrics and the plan, analyze_query returns a list that
\* contains a FULL_TABLE_SCAN problem of severity CRITICAL.
C1_SlowQueryIsCritical ==
    (Called /\ HasText /\ query_info.execution_time >= CriticalTime)
        => /\ Done
           /\ OfTypeSeverity(Ret, "FULL_TABLE_SCAN", "CRITICAL") # << >>

C1_Witness ==
    /\ Done
    /\ query_info.execution_time = CriticalTime
    /\ query_info.query_text = Str("SELEC )( ;; FROM")
    /\ OfTypeSeverity(Ret, "FULL_TABLE_SCAN", "CRITICAL") # << >>

\* C2: the execution-time pass contributes exactly one problem,
\* FULL_TABLE_SCAN/HIGH, when 5 s <= execution_time < 10 s, and nothing when
\* execution_time < 5 s; with no plan supplied a record with
\* execution_time < 5 s yields no FULL_TABLE_SCAN problem at all.
C2_TimePassBands ==
    (Called /\ HasText)
        => /\ Done
           /\ (query_info.execution_time >= HighTime /\ query_info.execution_time < CriticalTime)
                => /\ Len(TimePassOf(Ret)) = 1
                   /\ TimePassOf(Ret)[1].problem_type = "FULL_TABLE_SCAN"
                   /\ TimePassOf(Ret)[1].severity = "HIGH"
                   /\ OfTypeSeverity(Ret, "FULL_TABLE_SCAN", "CRITICAL") = << >>
           /\ query_info.execution_time < HighTime => TimePassOf(Ret) = << >>
           /\ (query_info.execution_time < HighTime /\ execution_plan = None)
                => OfType(Ret, "FULL_TABLE_SCAN") = << >>

C2_Witness ==
    /\ Done
    /\ query_info.execution_time = HighTime - 1
    /\ execution_plan = None
    /\ Ret # << >>
    /\ OfType(Ret, "FULL_TABLE_SCAN") = << >>

\* C3 as stated: scan_rows > max_scan_rows gives a TOO_MANY_ROWS/HIGH problem,
\* and scan_rows <= max_scan_rows gives no TOO_MANY_ROWS problem from the
\* scan-volume pass (the only pass that emits the type).
C3_Original ==
    (Called /\ HasText)
        => /\ Done
           /\ query_info.scan_rows > analyzer.max_scan_rows
                => OfTypeSeverity(Ret, "TOO_MANY_ROWS", "HIGH") # << >>
           /\ query_info.scan_rows <= analyzer.max_scan_rows
                => OfType(Ret, "TOO_MANY_ROWS") = << >>

\* C3 amended: scan_rows > max_scan_rows gives a TOO_MANY_ROWS/HIGH problem;
\* scan_rows <= max_scan_rows (equal included) gives no TOO_MANY_ROWS problem
\* for the row count, and a TOO_MANY_ROWS problem (for the byte count)
\* exactly when scan_bytes > max_scan_bytes.
C3_RowsRule ==
    (Called /\ HasText)
        => /\ Done
           /\ query_info.scan_rows > analyzer.max_scan_rows
                => OfTypeSeverity(Ret, "TOO_MANY_ROWS", "HIGH") # << >>
           /\ query_info.scan_rows <= analyzer.max_scan_rows
                => /\ ByEvidence(Ret, "scan rows:") = << >>
                   /\ Len(OfType(Ret, "TOO_MANY_ROWS"))
                        = B(query_info.scan_bytes > analyzer.max_scan_bytes)

C3_Witness ==
    /\ Done
    /\ query_info.scan_rows = analyzer.max_scan_rows
    /\ query_info.scan_bytes > analyzer.max_scan_bytes
    /\ Len(OfType(Ret, "TOO_MANY_ROWS")) = 1

Recognized ==
    {"FULL_TABLE_SCAN", "SELECT_STAR", "LIKE_PREFIX_WILDCARD", "OR_CONDITION",
     "FUNCTION_IN_WHERE", "TOO_MANY_ROWS", "SUBQUERY_INEFFICIENT"}

RecognizedOf(ps) == SelectSeq(ps, LAMBDA p : p.problem_type \in Recognized)

ExpectedCategory(t) == IF t = "FULL_TABLE_SCAN" THEN "INDEX" ELSE "QUERY"

ExpectedTitle(t) ==
    CASE t = "FULL_TABLE_SCAN" -> "add index"
      [] t = "SELECT_STAR" -> "avoid SELECT *"
      [] t = "LIKE_PREFIX_WILDCARD" -> "optimize LIKE"
      [] t = "OR_CONDITION" -> "replace OR by UNION ALL"
      [] t = "FUNCTION_IN_WHERE" -> "avoid functions in WHERE"
      [] t = "TOO_MANY_ROWS" -> "reduce scanned rows"
      [] t = "SUBQUERY_INEFFICIENT" -> "turn subquery into CTE or JOIN"

Suggested == suggestions.status # "not called"

\* C4: for a record with SQL text and any problem list, generate_suggestions
\* returns one suggestion per problem of recognized type, in the order of the
\* problems, each the suggestion of its problem's type with the matching
\* category; problems of one type are not collapsed.
C4_OneSuggestionPerRecognized ==
    (Suggested /\ HasText)
        => /\ suggestions.status = "returned"
           /\ Len(suggestions.ret) = Len(RecognizedOf(sug_problems))
           /\ \A i \in 1..Len(suggestions.ret) :
                LET t == RecognizedOf(sug_problems)[i].problem_type
                IN /\ suggestions.ret[i].category = ExpectedCategory(t)
                   /\ suggestions.ret[i].title = ExpectedTitle(t)

C4_Witness ==
    /\ suggestions.status = "returned"
    /\ HasText
    /\ Len(sug_problems) = 2
    /\ sug_problems[1].problem_type = "TOO_MANY_ROWS"
    /\ sug_problems[2].problem_type = "TOO_MANY_ROWS"
    /\ Len(suggestions.ret) = 2

\* C5: a problem whose type has no handler contributes no suggestion and no
\* error: a list of such problems gives the empty list, and any list gives
\* the outcome of the list without them.
C5_UnrecognizedSkipped ==
    Suggested
        => /\ RecognizedOf(sug_problems) = << >> => suggestions = Returned(<< >>)
           /\ suggestions = generate_suggestions(query_info, RecognizedOf(sug_problems))

C5_Witness ==
    /\ suggestions.status = "returned"
    /\ Len(sug_problems) = 2
    /\ sug_problems[1].problem_type = "NO_WHERE_CLAUSE"
    /\ sug_problems[2].problem_type = "SELECT_STAR"
    /\ Len(suggestions.ret) = 1
    /\ suggestions.ret[1].title = "avoid SELECT *"

\* C6: neither analyze_query nor generate_suggestions raises, for any record
\* (null or unparseable text included).
C6_NeverRaises ==
    /\ problems.status # "raised"
    /\ suggestions.status # "raised"

LexicalTypes ==
    {"SELECT_STAR", "OR_CONDITION", "LIKE_PREFIX_WILDCARD", "FUNCTION_IN_WHERE",
     "NO_WHERE_CLAUSE", "SUBQUERY_INEFFICIENT"}

\* C7: for a record whose SQL text is empty or null the lexical pass
\* contributes nothing and the problems of the execution-time and scan-volume
\* passes are still returned.
C7_EmptyOrNullText ==
    (Called /\ query_info.query_text \in {None, Str("")})
        => /\ Done
           /\ \A i \in 1..Len(Ret) : Ret[i].problem_type \notin LexicalTypes
           /\ query_info.execution_time >= HighTime => TimePassOf(Ret) # << >>
           /\ query_info.scan_rows > analyzer.max_scan_rows
                => ByEvidence(Ret, "scan rows:") # << >>

\* the position of a problem's rule in the fixed order of the passes
RuleRank(p) ==
    CASE p.problem_type = "FULL_TABLE_SCAN" /\ StartsWith(p.evidence, "execution time:") -> 1
      [] p.problem_type = "TOO_MANY_ROWS" /\ StartsWith(p.evidence, "scan rows:") -> 2
      [] p.problem_type = "TOO_MANY_ROWS" /\ StartsWith(p.evidence, "scan bytes:") -> 3
      [] p.problem_type = "MEMORY_INTENSIVE" -> 4
      [] p.problem_type = "SELECT_STAR" -> 5
      [] p.problem_type = "OR_CONDITION" -> 6
      [] p.problem_type = "LIKE_PREFIX_WILDCARD" -> 7
      [] p.problem_type = "FUNCTION_IN_WHERE" -> 8
      [] p.problem_type = "NO_WHERE_CLAUSE" -> 9
      [] p.problem_type = "SUBQUERY_INEFFICIENT" -> 10
      [] p.problem_type = "FULL_TABLE_SCAN" /\ StartsWith(p.evidence, "execution plan") -> 11
      [] OTHER -> 0

\* C8: in every returned list the problems stand in the fixed order of the
\* passes and of the rules within a pass: time; rows, bytes, memory;
\* SELECT_STAR, OR_CONDITION, LIKE_PREFIX_WILDCARD, FUNCTION_IN_WHERE,
\* NO_WHERE_CLAUSE, SUBQUERY_INEFFICIENT; plan.
C8_FixedOrder ==
    Done => \A i, j \in 1..Len(Ret) :
                i < j => (RuleRank(Ret[i]) >= 1 /\ RuleRank(Ret[i]) < RuleRank(Ret[j]))

C8_Witness ==
    /\ Done
    /\ Len(Ret) = 10
    /\ RuleRank(Ret[1]) = 1
    /\ RuleRank(Ret[5]) = 5
    /\ RuleRank(Ret[10]) = 11

C10_NoCollapsing ==
    (Called /\ HasText)
        => /\ Done
           /\ Len(OfTypeSeverity(Ret, "TOO_MANY_ROWS", "HIGH"))
                = B(query_info.scan_rows > analyzer.max_scan_rows)
                  + B(query_info.scan_bytes > analyzer.max_scan_bytes)
           /\ Len(OfType(Ret, "FULL_TABLE_SCAN"))
                = B(query_info.execution_time >= HighTime) + B(PlanHasMarker)
           /\ Len(OfTypeSeverity(Ret, "FULL_TABLE_SCAN", "MEDIUM")) = B(PlanHasMarker)
           /\ Len(OfTypeSeverity(Ret, "FULL_TABLE_SCAN", "CRITICAL"))
                + Len(OfTypeSeverity(Ret, "FULL_TABLE_SCAN", "HIGH"))
                = B(query_info.execution_time >= HighTime)

C10_Witness ==
    /\ Done
    /\ query_info.scan_rows > analyzer.max_scan_rows
    /\ query_info.scan_bytes > analyzer.max_scan_bytes
    /\ query_info.execution_time >= HighTime
    /\ PlanHasMarker
    /\ Len(OfTypeSeverity(Ret, "TOO_MANY_ROWS", "HIGH")) = 2
    /\ Len(OfType(Ret, "FULL_TABLE_SCAN")) = 2

ExpectedPriority(t) ==
    CASE t = "FULL_TABLE_SCAN" -> "HIGH"
      [] t = "SELECT_STAR" -> "MEDIUM"
      [] t = "LIKE_PREFIX_WILDCARD" -> "HIGH"
      [] t = "OR_CONDITION" -> "LOW"
      [] t = "FUNCTION_IN_WHERE" -> "MEDIUM"
      [] t = "TOO_MANY_ROWS" -> "HIGH"
      [] t = "SUBQUERY_INEFFICIENT" -> "MEDIUM"

\* C11: in every list generate_suggestions returns, the category and the
\* priority of each suggestion are those fixed for the type of its problem
\* (FULL_TABLE_SCAN INDEX/HIGH, SELECT_STAR QUERY/MEDIUM, LIKE_PREFIX_WILDCARD
\* QUERY/HIGH, OR_CONDITION QUERY/LOW, FUNCTION_IN_WHERE QUERY/MEDIUM,
\* TOO_MANY_ROWS QUERY/HIGH, SUBQUERY_INEFFICIENT QUERY/MEDIUM), whatever the
\* problem's severity and whatever the record.
C11_CategoryPriorityByType ==
    suggestions.status = "returned"
        => /\ Len(suggestions.ret) = Len(RecognizedOf(sug_problems))
           /\ \A i \in 1..Len(suggestions.ret) :
                /\ suggestions.ret[i].category
                     = ExpectedCategory(RecognizedOf(sug_problems)[i].problem_type)
                /\ suggestions.ret[i].priority
                     = ExpectedPriority(RecognizedOf(sug_problems)[i].problem_type)

C11_Witness ==
    /\ suggestions.status = "returned"
    /\ Len(sug_problems) = 2
    /\ sug_problems[1].problem_type = "FULL_TABLE_SCAN"
    /\ sug_problems[1].severity = "LOW"
    /\ sug_problems[2].problem_type = "FULL_TABLE_SCAN"
    /\ sug_problems[2].severity = "HIGH"
    /\ query_info.execution_time = 20
    /\ Len(suggestions.ret) = 2
    /\ suggestions.ret[1].priority = "HIGH"
    /\ suggestions.ret[1].category = "INDEX"
    /\ suggestions.ret[2].priority = "HIGH"

\* the SELECT_STAR template for a table name
ColumnsTemplate(table) ==
    Str("-- name the columns\nSELECT col1, col2, col3 FROM " \o table \o " WHERE ...;")

\* the suggestions of the SELECT_STAR handler in a list
StarSuggestions(ss) == SelectSeq(ss, LAMBDA s : s.title = "avoid SELECT *")

\* C12: every SELECT_STAR suggestion names the first table referenced in the
\* SQL text (the first token found after FROM/JOIN/INTO/UPDATE/TABLE,
\* stripped of quoting characters, SQL keywords excluded), also when the text
\* references several tables, and the placeholder your_table only when no
\* table is found; for SELECT * FROM orders WHERE status = 'pending' it
\* names orders.
C12_FirstTableNamed ==
    (suggestions.status = "returned" /\ HasText)
        => \A i \in 1..Len(StarSuggestions(suggestions.ret)) :
              LET tables == table_list(query_info.query_text.value)
              IN StarSuggestions(suggestions.ret)[i].suggested_sql
                   = ColumnsTemplate(IF tables = << >> THEN "your_table" ELSE tables[1])

\* The lexical facts below are stated on the upper-cased text U of a record
\* and tabulated once for the texts of the model.

\* U contains the keyword WHERE
HasWhereIn(U) == \E i \in 1..Len(U) : MatchAt(U, i, "WHERE")

\* U contains the word OR with no word character before or after it
HasOrTokenIn(U) ==
    \E i \in 1..Len(U) :
        /\ MatchAt(U, i, "OR")
        /\ (i = 1 \/ Char(U, i - 1) \notin WordSet)
        /\ (i + 2 > Len(U) \/ Char(U, i + 2) \notin WordSet)

\* U has LIKE, white space, a quote, % and then a character other than %
HasLikePrefixWildcardIn(U) ==
    \E i \in 1..Len(U) :
        /\ MatchAt(U, i, "LIKE")
        /\ SpaceRun(U, i + 4) >= 1
        /\ Char(U, i + 4 + SpaceRun(U, i + 4)) \in {"'", "\""}
        /\ MatchAt(U, i + 5 + SpaceRun(U, i + 4), "%")
        /\ i + 6 + SpaceRun(U, i + 4) <= Len(U)
        /\ Char(U, i + 6 + SpaceRun(U, i + 4)) # "%"

\* the text s without the % that leads a LIKE pattern, nothing else changed
RECURSIVE WithoutLeadingWildcard(_, _, _)
WithoutLeadingWildcard(s, U, i) ==
    IF i > Len(s) THEN ""
    ELSE IF /\ MatchAt(U, i, "LIKE")
            /\ SpaceRun(U, i + 4) >= 1
            /\ Char(U, i + 4 + SpaceRun(U, i + 4)) \in {"'", "\""}
            /\ MatchAt(U, i + 5 + SpaceRun(U, i + 4), "%")
    THEN SubSeq(s, i, i + 4 + SpaceRun(U, i + 4))
         \o WithoutLeadingWildcard(s, U, i + 6 + SpaceRun(U, i + 4))
    ELSE Char(s, i) \o WithoutLeadingWildcard(s, U, i + 1)

BeginsWithSelectIn(U) == Len(U) >= 6 /\ SubSeq(U, 1, 6) = "SELECT"

HasJoinIn(U) == \E i \in 1..Len(U) : MatchAt(U, i, "JOIN")

\* U has COUNT, SUM, AVG, MAX or MIN directly followed by (
HasAggregateCallIn(U) ==
    \E name \in {"COUNT", "SUM", "AVG", "MAX", "MIN"} :
        \E i \in 1..Len(U) : MatchAt(U, i, name \o "(")

\* U has FROM, optional white space, an opening parenthesis and a SELECT
\* inside the parentheses, directly after the parenthesis or later
HasNestedSelectIn(U) ==
    \E i \in 1..Len(U) :
        /\ MatchAt(U, i, "FROM")
        /\ MatchAt(U, i + 4 + SpaceRun(U, i + 4), "(")
        /\ \E k \in (i + 5 + SpaceRun(U, i + 4))..Len(U) :
              /\ MatchAt(U, k, "SELECT")
              /\ \A j \in (i + 5 + SpaceRun(U, i + 4))..(k - 1) : Char(U, j) # ")"

\* U has WHERE and white space, and in what follows up to a semicolon a
\* letter or underscore directly followed by ( and, later, by ); the
\* parentheses may be empty
HasFunctionInWhereIn(U) ==
    \E i \in 1..Len(U) :
        /\ MatchAt(U, i, "WHERE")
        /\ SpaceRun(U, i + 5) >= 1
        /\ \E p \in (i + 6)..Len(U) :
              /\ Char(U, p) \in UpperSet \cup {"_"}
              /\ MatchAt(U, p + 1, "(")
              /\ \E c \in (p + 2)..Len(U) :
                    /\ Char(U, c) = ")"
                    /\ \A j \in (i + 6)..c : Char(U, j) # ";"

HasSelectStarIn(U) == \E i \in 1..Len(U) : MatchAt(U, i, "SELECT *")

TextFactsOf(s, U) ==
    [has_where |-> HasWhereIn(U),
     has_select_star |-> HasSelectStarIn(U),
     has_or_token |-> HasOrTokenIn(U),
     has_like_prefix_wildcard |-> HasLikePrefixWildcardIn(U),
     without_leading_wildcard |-> WithoutLeadingWildcard(s, U, 1),
     begins_with_select |-> BeginsWithSelectIn(U),
     has_join |-> HasJoinIn(U),
     has_aggregate_call |-> HasAggregateCallIn(U),
     has_nested_select |-> HasNestedSelectIn(U),
     has_function_in_where |-> HasFunctionInWhereIn(U)]

TextFacts ==
    [text \in {t.value : t \in (SqlTexts \cup OtherTexts) \ {None}} |->
        TextFactsOf(text, Upper(text))]

\* the facts of the text of the record under analysis
Facts == TextFacts[query_info.query_text.value]

TextHasWhere == Facts.has_where
TextHasSelectStar == Facts.has_select_star
TextHasOrToken == Facts.has_or_token
TextHasLikePrefixWildcard == Facts.has_like_prefix_wildcard
TextBeginsWithSelect == Facts.begins_with_select
TextHasJoin == Facts.has_join
TextHasAggregateCall == Facts.has_aggregate_call
TextHasNestedSelect == Facts.has_nested_select
TextHasFunctionInWhere == Facts.has_function_in_where

\* C13: for a record with SQL text, analyze_query returns exactly one
\* OR_CONDITION problem, of severity LOW, when the text contains WHERE and the
\* word OR as a standalone token (case-insensitive), and none otherwise; OR
\* inside a longer identifier (orders) does not count, so
\* SELECT * FROM orders WHERE status = 'pending' yields SELECT_STAR, no
\* OR_CONDITION and no LIKE_PREFIX_WILDCARD.
C13_OrCondition ==
    (Called /\ HasText)
        => /\ Done
           /\ Len(OfType(Ret, "OR_CONDITION")) = B(TextHasWhere /\ TextHasOrToken)
           /\ OfType(Ret, "OR_CONDITION") = OfTypeSeverity(Ret, "OR_CONDITION", "LOW")
           /\ query_info.query_text = Str("SELECT * FROM orders WHERE status = 'pending'")
                => /\ Len(OfType(Ret, "SELECT_STAR")) = 1
                   /\ OfType(Ret, "OR_CONDITION") = << >>
                   /\ OfType(Ret, "LIKE_PREFIX_WILDCARD") = << >>

C13_Witness ==
    /\ Done
    /\ query_info.query_text = Str("SELECT * FROM orders WHERE status = 'pending'")
    /\ Len(OfType(Ret, "SELECT_STAR")) = 1
    /\ OfType(Ret, "OR_CONDITION") = << >>

\* C14: for every text in which LIKE is followed by a quote, a leading % and
\* a character other than %, analyze_query returns one LIKE_PREFIX_WILDCARD
\* problem, of severity HIGH, and the suggestion generated for it has as
\* suggested_sql the original text with the leading wildcard removed and
\* nothing else changed.
C14_LikeRewrite ==
    (Called /\ HasText /\ TextHasLikePrefixWildcard)
        => /\ Done
           /\ Len(OfTypeSeverity(Ret, "LIKE_PREFIX_WILDCARD", "HIGH")) = 1
           /\ Suggested
                => /\ suggestions.status = "returned"
                   /\ \E i \in 1..Len(suggestions.ret) :
                         /\ suggestions.ret[i].title = "optimize LIKE"
                         /\ suggestions.ret[i].suggested_sql
                              = Str(Facts.without_leading_wildcard)

\* C15: for a record with SQL text, analyze_query returns exactly one
\* NO_WHERE_CLAUSE problem, of severity HIGH, when the text begins with
\* SELECT, contains neither WHERE nor JOIN and contains no COUNT/SUM/AVG/
\* MAX/MIN call, and none otherwise: SELECT name FROM customers gives one,
\* SELECT COUNT(*) FROM customers gives none, and no text with WHERE or JOIN
\* gives one.
C15_NoWhereClause ==
    (Called /\ HasText)
        => /\ Done
           /\ Len(OfType(Ret, "NO_WHERE_CLAUSE"))
                = B(/\ TextBeginsWithSelect
                    /\ ~TextHasWhere
                    /\ ~TextHasJoin
                    /\ ~TextHasAggregateCall)
           /\ OfType(Ret, "NO_WHERE_CLAUSE") = OfTypeSeverity(Ret, "NO_WHERE_CLAUSE", "HIGH")
           /\ query_info.query_text = Str("SELECT name FROM customers")
                => Len(OfType(Ret, "NO_WHERE_CLAUSE")) = 1
           /\ query_info.query_text = Str("SELECT COUNT(*) FROM customers")
                => OfType(Ret, "NO_WHERE_CLAUSE") = << >>
           /\ (TextHasWhere \/ TextHasJoin) => OfType(Ret, "NO_WHERE_CLAUSE") = << >>

C15_Witness ==
    /\ Done
    /\ query_info.query_text = Str("SELECT name FROM customers")
    /\ Len(OfTypeSeverity(Ret, "NO_WHERE_CLAUSE", "HIGH")) = 1

\* C16: for a record with SQL text, analyze_query returns one
\* SUBQUERY_INEFFICIENT problem, of severity MEDIUM, when FROM is followed by
\* a parenthesised nested SELECT, the form FROM (SELECT ... included, and
\* none when no nested SELECT follows a FROM.
C16_Subquery ==
    (Called /\ HasText)
        => /\ Done
           /\ Len(OfType(Ret, "SUBQUERY_INEFFICIENT")) = B(TextHasNestedSelect)
           /\ OfType(Ret, "SUBQUERY_INEFFICIENT")
                = OfTypeSeverity(Ret, "SUBQUERY_INEFFICIENT", "MEDIUM")

\* C17: for a record with SQL text, analyze_query returns one
\* FUNCTION_IN_WHERE problem, of severity MEDIUM, when the body of the WHERE
\* clause contains a function call, with arguments (YEAR(created_at)) or
\* with empty parentheses (NOW()), and none when the text has no WHERE.
C17_FunctionInWhere ==
    (Called /\ HasText)
        => /\ Done
           /\ Len(OfType(Ret, "FUNCTION_IN_WHERE")) = B(TextHasFunctionInWhere)
           /\ OfType(Ret, "FUNCTION_IN_WHERE")
                = OfTypeSeverity(Ret, "FUNCTION_IN_WHERE", "MEDIUM")
           /\ ~TextHasWhere => OfType(Ret, "FUNCTION_IN_WHERE") = << >>

\* the upper-cased text U holds OLAP_SCAN or FULL_SCAN
HasScanMarkerIn(U) ==
    \E i \in 1..Len(U) : MatchAt(U, i, "OLAP_SCAN") \/ MatchAt(U, i, "FULL_SCAN")

\* tabulated once for the plans of the model
PlanFacts ==
    [plan \in (Plans \cup {o.execution_plan : o \in OtherCalls}) \ {None} |->
        HasScanMarkerIn(Upper(plan.value))]

\* a plan was supplied and its text holds OLAP_SCAN or FULL_SCAN in any case
PlanTextHasMarker == execution_plan # None /\ PlanFacts[execution_plan]

\* C18: for a record with SQL text, with no plan analyze_query returns no
\* FULL_TABLE_SCAN problem of severity MEDIUM; with a plan whose text holds
\* a scan marker (OLAP_SCAN or FULL_SCAN, in any case) it returns exactly
\* one, as the last element of the list; with a plan without marker it
\* returns none.
C18_PlanPass ==
    (Called /\ HasText)
        => /\ Done
           /\ execution_plan = None
                => OfTypeSeverity(Ret, "FULL_TABLE_SCAN", "MEDIUM") = << >>
           /\ PlanTextHasMarker
                => /\ Len(OfTypeSeverity(Ret, "FULL_TABLE_SCAN", "MEDIUM")) = 1
                   /\ Ret[Len(Ret)].problem_type = "FULL_TABLE_SCAN"
                   /\ Ret[Len(Ret)].severity = "MEDIUM"
           /\ (execution_plan # None /\ ~PlanTextHasMarker)
                => OfTypeSeverity(Ret, "FULL_TABLE_SCAN", "MEDIUM") = << >>

C18_Witness ==
    /\ Done
    /\ execution_plan = Dict("{'node': 'olap_scan_node'}")
    /\ Len(Ret) >= 3
    /\ Len(OfTypeSeverity(Ret, "FULL_TABLE_SCAN", "MEDIUM")) = 1
    /\ Ret[Len(Ret)].severity = "MEDIUM"

\* the text of the record triggers none of the six lexical rules
NoLexicalRule ==
    /\ ~TextHasSelectStar
    /\ ~(TextHasWhere /\ TextHasOrToken)
    /\ ~TextHasLikePrefixWildcard
    /\ ~TextHasFunctionInWhere
    /\ ~(TextBeginsWithSelect /\ ~TextHasWhere /\ ~TextHasJoin /\ ~TextHasAggregateCall)
    /\ ~TextHasNestedSelect

\* the record under analysis is below every threshold and has no plan
Unremarkable ==
    /\ query_info.execution_time < HighTime
    /\ query_info.scan_rows <= analyzer.max_scan_rows
    /\ query_info.scan_bytes <= analyzer.max_scan_bytes
    /\ query_info.memory_used <= MemoryLimit
    /\ execution_plan = None

\* C19: for a record with execution_time < 5 s, scan_rows, scan_bytes and
\* memory_used at or below their thresholds, no plan and a text that triggers
\* no lexical rule (execution_time = 0.2, scan_rows = 100,
\* SELECT id FROM t WHERE id=1), analyze_query returns the empty list and
\* generate_suggestions on that list returns the empty list.
C19_NothingToReport ==
    (Called /\ HasText /\ Unremarkable /\ NoLexicalRule)
        => /\ problems = Returned(<< >>)
           /\ Suggested => suggestions = Returned(<< >>)

C19_Witness ==
    /\ query_info.query_text = Str("SELECT id FROM t WHERE id=1")
    /\ query_info.execution_time = 20
    /\ query_info.scan_rows = 100
    /\ query_info.scan_bytes = analyzer.max_scan_bytes
    /\ query_info.memory_used = MemoryLimit
    /\ execution_plan = None
    /\ problems = Returned(<< >>)
    /\ sug_problems = << >>
    /\ suggestions = Returned(<< >>)

SeverityRead == derived_severity.status = "returned"
Severities == {"CRITICAL", "HIGH", "MEDIUM", "LOW"}

\* the bucket the execution time t (hundredths of a second) lies in
InBucket(sev, t) ==
    CASE sev = "CRITICAL" -> t >= 1000
      [] sev = "HIGH" -> 500 <= t /\ t < 1000
      [] sev = "MEDIUM" -> 100 <= t /\ t < 500
      [] sev = "LOW" -> t < 100

\* C20: the severity of a record is defined for every record and depends on
\* execution_time alone, with inclusive lower bounds: CRITICAL iff
\* execution_time >= 10, HIGH iff 5 <= execution_time < 10, MEDIUM iff
\* 1 <= execution_time < 5, LOW iff execution_time < 1; exactly one bucket
\* applies to every record.
C20_SeverityBuckets ==
    SeverityRead =>
        /\ derived_severity.ret \in Severities
        /\ \A sev \in Severities :
              derived_severity.ret = sev <=> InBucket(sev, query_info.execution_time)
        /\ Cardinality({sev \in Severities :
                           InBucket(sev, query_info.execution_time)}) = 1

C20_Witness ==
    /\ query_info.execution_time = 100
    /\ derived_severity = Returned("MEDIUM")

\* C21: analyze_query returns exactly one MEMORY_INTENSIVE problem, of
\* severity MEDIUM, when memory_used > 536,870,912 bytes and none when
\* memory_used <= 536,870,912 (536,870,912 itself gives none, 536,870,913
\* gives one), whatever max_scan_rows and max_scan_bytes are configured and
\* whether or not the row and byte rules fired.
C21_MemoryRule ==
    (Called /\ HasText)
        => /\ Done
           /\ Len(OfType(Ret, "MEMORY_INTENSIVE")) = B(query_info.memory_used > 536870912)
           /\ OfType(Ret, "MEMORY_INTENSIVE")
                = OfTypeSeverity(Ret, "MEMORY_INTENSIVE", "MEDIUM")

\* exactly at the limit with both volume rules fired under configured limits
C21_Witness ==
    /\ Done
    /\ analyzer.max_scan_rows = 1000
    /\ query_info.memory_used = 536870912
    /\ query_info.scan_rows > analyzer.max_scan_rows
    /\ query_info.scan_bytes > analyzer.max_scan_bytes
    /\ Len(OfType(Ret, "TOO_MANY_ROWS")) = 2
    /\ OfType(Ret, "MEMORY_INTENSIVE") = << >>

\* C22: analyze_query and generate_suggestions leave their inputs as they
\* were: across every call the analyzer keeps max_scan_rows and
\* max_scan_bytes, the record and the plan after analyze_query are the record
\* and the plan it was called on, and after generate_suggestions the record
\* and the problem list it was handed are unchanged.
C22_InputsUnchanged ==
    [][/\ analyzer' = analyzer
       /\ AnalyzeQuery =>
            /\ query_info' = query_info
            /\ execution_plan' = execution_plan
       /\ AnalyzeAgain =>
            /\ query_info' = first_call.query_info
            /\ execution_plan' = first_call.execution_plan
       /\ AnalyzeOther =>
            \E o \in OtherCalls : /\ query_info' = o.query_info
                                  /\ execution_plan' = o.execution_plan
       /\ GenerateSuggestions =>
            /\ query_info' = query_info
            /\ execution_plan' = execution_plan
            /\ problems' = problems
            /\ sug_problems' = problems.ret]_vars

\* both handlers have run on the triple of the first call, which is intact
C22_Witness ==
    /\ between > 0
    /\ Done
    /\ suggestions.status = "returned"
    /\ suggestions.ret # << >>
    /\ query_info = first_call.query_info
    /\ execution_plan = first_call.execution_plan
    /\ query_info.query_text = Str("select * from t where a = 1 or b = 2")
    /\ sug_problems = problems.ret
    /\ problems = first_call.outcome

\* C23: with analyze_query and generate_suggestions running concurrently on
\* independent records through one QueryAnalyzer and one
\* OptimizationSuggester, under every interleaving each finished call has
\* returned exactly the problem list and the suggestion list it returns when
\* it runs alone.
C23_ConcurrentCallsIndependent ==
    \A t \in DOMAIN threads :
        /\ threads[t].ret.status # "not called"
              => threads[t].ret = analyze_query(analyzer, threads[t].query_info,
                                                threads[t].execution_plan)
        /\ threads[t].sug.status # "not called"
              => threads[t].sug = generate_suggestions(threads[t].query_info,
                                                       threads[t].ret.ret)

\* two calls on different records, each interleaved with the other, finished
C23_Witness ==
    /\ DOMAIN threads = Threads
    /\ \A t \in Threads : /\ threads[t].pc = "done"
                           /\ threads[t].interleaved
                           /\ threads[t].sug.status = "returned"
                           /\ threads[t].sug.ret # << >>
    /\ threads[1].query_info # threads[2].query_info
    /\ threads[1].ret # threads[2].ret

\* the per-query loop of analyze is over
AfterLoop ==
    /\ run.op = "analyze"
    /\ \/ run.pc = "loop" /\ run.i > Len(run.slow_queries)
       \/ run.pc = "done" /\ run.report # None

\* the analysis of the collected query q does not fail
AnalysisSucceeds(q) ==
    /\ analyze_query(analyzer, q, None).status = "returned"
    /\ generate_suggestions(q, analyze_query(analyzer, q, None).ret).status = "returned"

CollectedIds == {run.slow_queries[k].query_id : k \in 1..Len(run.slow_queries)}

\* C24: after the per-query loop of analyze, for every collected query q
\* whose analysis did not fail, problems_by_query[q.query_id] is the problem
\* list analyze_query returned for q and suggestions_by_query[q.query_id] is
\* the suggestion list generated from it; every key of suggestions_by_query
\* is a key of problems_by_query, and both hold only identifiers of collected
\* queries.
C24_MappingsPerQuery ==
    AfterLoop =>
        /\ \A k \in 1..Len(run.slow_queries) :
              AnalysisSucceeds(run.slow_queries[k]) =>
                /\ run.slow_queries[k].query_id \in DOMAIN run.problems_by_query
                /\ run.problems_by_query[run.slow_queries[k].query_id]
                     = analyze_query(analyzer, run.slow_queries[k], None).ret
                /\ run.slow_queries[k].query_id \in DOMAIN run.suggestions_by_query
                /\ run.suggestions_by_query[run.slow_queries[k].query_id]
                     = generate_suggestions(run.slow_queries[k],
                          analyze_query(analyzer, run.slow_queries[k], None).ret).ret
        /\ DOMAIN run.suggestions_by_query \subseteq DOMAIN run.problems_by_query
        /\ DOMAIN run.problems_by_query \subseteq CollectedIds

\* the scan of the record's text gives no statement: the text is empty
ScanFails == HasText /\ query_info.query_text.value = ""

\* C25: when the scan of the SQL text fails inside the lexical structure
\* pass, analyze_query does not raise, the pass contributes no problem at
\* all, and the list returned holds the problems of the execution-time pass,
\* of the scan-volume pass and, if a plan was supplied, of the plan pass.
C25_ScanFailureContained ==
    (Called /\ ScanFails)
        => /\ Done
           /\ \A k \in 1..Len(Ret) : Ret[k].problem_type \notin LexicalTypes
           /\ Len(TimePassOf(Ret)) = B(query_info.execution_time >= HighTime)
           /\ Len(OfType(Ret, "FULL_TABLE_SCAN"))
                = B(query_info.execution_time >= HighTime) + B(PlanTextHasMarker)
           /\ Len(OfType(Ret, "TOO_MANY_ROWS"))
                = B(query_info.scan_rows > analyzer.max_scan_rows)
                  + B(query_info.scan_bytes > analyzer.max_scan_bytes)
           /\ Len(OfType(Ret, "MEMORY_INTENSIVE")) = B(query_info.memory_used > MemoryLimit)
           /\ Len(Ret) = Len(OfType(Ret, "FULL_TABLE_SCAN"))
                          + Len(OfType(Ret, "TOO_MANY_ROWS"))
                          + Len(OfType(Ret, "MEMORY_INTENSIVE"))

\* the empty text with all three other passes contributing
C25_Witness ==
    /\ Done
    /\ query_info.query_text = Str("")
    /\ execution_plan = Str("FULL_SCAN on t")
    /\ Len(Ret) = 5
    /\ Ret[1].severity = "CRITICAL"
    /\ Ret[5].problem_type = "FULL_TABLE_SCAN"
    /\ Ret[5].severity = "MEDIUM"

\* the index template over the text `names` between its parentheses
IndexTemplate(names) ==
    "-- index suggestion\nCREATE INDEX idx_optimization ON your_table (" \o names \o ");"

\* the arrangements of the elements of S, each element once
Arrangements(S) ==
    {p \in [1..Cardinality(S) -> S] : \A j, k \in 1..Cardinality(S) : p[j] = p[k] => j = k}

\* the columns extracted from the three sources of a text
ExtractedColumns(sql) ==
    Range(_extract_where_columns(sql)) \cup Range(_extract_order_columns(sql))
        \cup Range(_extract_join_columns(sql))

\* the templates that name exactly the extracted columns, each once, or the
\* placeholder when there is none; tabulated per text
IndexTemplatesOf(S) ==
    IF S = {} THEN {IndexTemplate(ColumnsPlaceholder)}
    ELSE {IndexTemplate(Join(p, ", ")) : p \in Arrangements(S)}

IndexTemplates ==
    [text \in {t.value : t \in (SqlTexts \cup OtherTexts) \ {None}} |->
        IndexTemplatesOf(ExtractedColumns(text))]

IndexSuggestions(ss) == SelectSeq(ss, LAMBDA s : s.category = "INDEX")

\* C26: the index template of every FULL_TABLE_SCAN suggestion names exactly
\* the deduplicated union of the columns extracted from the WHERE clause, the
\* ORDER BY clause and the JOIN ON clauses: each extracted column once, no
\* other name, and the placeholder if and only if no column was extracted.
C26_IndexTemplateColumns ==
    (suggestions.status = "returned" /\ HasText)
        => /\ Len(IndexSuggestions(suggestions.ret)) = Len(OfType(sug_problems, "FULL_TABLE_SCAN"))
           /\ \A k \in 1..Len(IndexSuggestions(suggestions.ret)) :
                IndexSuggestions(suggestions.ret)[k].suggested_sql.value
                    \in IndexTemplates[query_info.query_text.value]

\* five columns from the three sources, two of them extracted twice
C26_Witness ==
    /\ suggestions.status = "returned"
    /\ hash_seed = 1
    /\ query_info.query_text
         = Str("SELECT * FROM a JOIN b ON a.id = b.id WHERE a.x > 1 ORDER BY a.y")
    /\ IndexSuggestions(suggestions.ret) # << >>
    /\ IndexSuggestions(suggestions.ret)[1].suggested_sql.value
         = IndexTemplate("b, id, y, a, x")

LogOf(op) == SelectSeq(log, LAMBDA e : e.op = op)

CallOver == run.pc = "done"

\* a call of analyze or get_top_slow_queries is running or over
Orchestrating == run.op \in {"analyze", "get_top_slow_queries"}

\* connect() at the start of the running or finished call succeeded
Connected == Orchestrating /\ log[1].op = "connect" /\ log[1].ok

\* C27: a call of analyze or get_top_slow_queries in which connect()
\* succeeds calls disconnect() exactly once before it returns or raises,
\* whatever happens in collection, filtering, the per-query analysis or the
\* report (the return with no slow query included); when connect() fails,
\* disconnect() is not called and nothing is collected, analysed or reported.
C27_DisconnectExactlyOnce ==
    /\ (CallOver /\ Connected) => Len(LogOf("disconnect")) = 1
    /\ (Orchestrating /\ ~CallOver) => (Connected /\ LogOf("disconnect") = << >>)
    /\ (Orchestrating /\ CallOver /\ ~Connected)
          => /\ LogOf("disconnect") = << >>
             /\ LogOf("execute_query") = << >>
             /\ run.slow_queries = << >>
             /\ DOMAIN run.problems_by_query = {}
             /\ DOMAIN run.suggestions_by_query = {}
             /\ run.report = None

\* the report fails after the loop and the connection is closed on the way out
C27_Witness ==
    /\ CallOver
    /\ Connected
    /\ run.op = "analyze"
    /\ run.result = Raised("OSError")
    /\ Len(LogOf("disconnect")) = 1
    /\ log[Len(log)].op = "disconnect"
    /\ connection = Connection(TRUE)

\* log[j] is a successful connect(), the caller's or execute_query's own
OpensAt(j) ==
    \/ log[j].op = "connect" /\ log[j].ok
    \/ log[j].op = "execute_query" /\ log[j].connect = "succeeded"

\* before call k there is no open connection: no connect() has succeeded, or
\* disconnect() was called since the last one that did
NoOpenConnectionBefore(k) ==
    \/ \A j \in 1..(k - 1) : ~OpensAt(j)
    \/ \E d \in 1..(k - 1) :
          /\ log[d].op = "disconnect"
          /\ \A j \in (d + 1)..(k - 1) : ~OpensAt(j)

\* C28: in any sequence of connect(), disconnect() and execute_query() calls
\* on one connector, execute_query runs its statement only on an open
\* connection: when there is no open connection (none was made, or
\* disconnect() was called since the last successful connect) it calls
\* connect() first, and when that connect fails it returns the empty list
\* without executing.
C28_ExecuteOnOpenConnection ==
    \A k \in 1..Len(log) :
        log[k].op = "execute_query" =>
            /\ NoOpenConnectionBefore(k) => log[k].connect # "not called"
            /\ log[k].connect = "failed"
                  => (log[k].statement = "not run" /\ log[k].ret = << >>)
            /\ log[k].statement # "on closed connection"

\* the per-query loop of the running or finished analyze call was entered
LoopEntered == run.op = "analyze" /\ run.i >= 1

\* a query before position k failed in the loop
FailureBefore(k) == \E j \in 1..(k - 1) : ~AnalysisSucceeds(run.slow_queries[j])

\* no query after position k carries the identifier of the query at k
LastOfItsId(k) ==
    \A j \in (k + 1)..Len(run.slow_queries) :
        run.slow_queries[j].query_id # run.slow_queries[k].query_id

\* C29: in analyze, an exception raised while detecting problems or
\* generating suggestions for one query does not stop the loop: every later
\* query is still analysed and recorded in the mappings, the failure is not
\* propagated to the caller, and the report is generated over the full list
\* of collected queries.
C29_LoopSurvivesFailure ==
    /\ AfterLoop =>
          \A k \in 1..Len(run.slow_queries) :
              (FailureBefore(k) /\ AnalysisSucceeds(run.slow_queries[k]))
                => /\ run.slow_queries[k].query_id \in DOMAIN run.problems_by_query
                   /\ run.slow_queries[k].query_id \in DOMAIN run.suggestions_by_query
                   /\ LastOfItsId(k) =>
                        run.problems_by_query[run.slow_queries[k].query_id]
                          = analyze_query(analyzer, run.slow_queries[k], None).ret
    /\ (CallOver /\ LoopEntered)
          => /\ run.i = Len(run.slow_queries) + 1
             /\ run.report # None
             /\ run.report.slow_queries = run.slow_queries
             /\ run.report.problems_by_query = run.problems_by_query
             /\ run.report.suggestions_by_query = run.suggestions_by_query
             /\ run.result \in {Returned("report path"), Raised("OSError")}

\* the first query fails, the two after it are recorded, the report is written
C29_Witness ==
    /\ CallOver
    /\ LoopEntered
    /\ Len(run.slow_queries) = 3
    /\ run.slow_queries[1].query_text = None
    /\ DOMAIN run.problems_by_query = {"q1", "q2"}
    /\ DOMAIN run.suggestions_by_query = {"q1", "q2"}
    /\ Len(run.report.slow_queries) = 3
    /\ run.result = Returned("report path")

\* the row can be converted into a SlowQueryInfo
Convertible(row) == row.execution_time # None

\* the execute_query call of the running or finished collection
Executed == LogOf("execute_query")[1]

\* the statement of that call met a database failure
DatabaseFailure ==
    \/ Executed.connect = "failed"
    \/ Executed.statement = "on closed connection"
    \/ Executed.server.failed

Collected == run.pc \notin {"idle", "collect"} /\ LogOf("execute_query") # << >>

\* C30: execute_query does not raise: it returns the empty list when the
\* connection cannot be established or the statement fails, and the rows
\* otherwise; so collect_slow_queries returns the empty list on a database
\* failure and otherwise the convertible rows in their original order, the
\* others skipped; and analyze then returns the no-slow-queries result with
\* no report generated.
C30_DatabaseFailureContained ==
    Collected =>
        /\ Executed.ret = IF DatabaseFailure THEN << >> ELSE Executed.server.rows
        /\ (run.op = "collect_slow_queries" \/ run.pc \in {"filter", "top"})
              => /\ Len(run.slow_queries) = Len(SelectSeq(Executed.ret, Convertible))
                 /\ \A k \in 1..Len(run.slow_queries) :
                       /\ run.slow_queries[k].query_id
                            = SelectSeq(Executed.ret, Convertible)[k].query_id
                       /\ run.slow_queries[k].query_text
                            = SelectSeq(Executed.ret, Convertible)[k].query_text
                       /\ run.slow_queries[k].execution_time
                            = SelectSeq(Executed.ret, Convertible)[k].execution_time.value
                 /\ DatabaseFailure => run.slow_queries = << >>
        /\ (run.op = "collect_slow_queries" /\ CallOver)
              => run.result = Returned(run.slow_queries)
        /\ (run.op = "analyze" /\ CallOver /\ DatabaseFailure)
              => /\ run.result = Returned(NoSlowQueries)
                 /\ run.report = None

\* an unconvertible row between two rows that are kept, in the collector
\* called on a connector that connects by itself
C30_Witness ==
    /\ run.op = "collect_slow_queries"
    /\ CallOver
    /\ Executed.connect = "succeeded"
    /\ Len(Executed.ret) = 3
    /\ ~Convertible(Executed.ret[2])
    /\ Len(run.slow_queries) = 2
    /\ run.slow_queries[1].query_id = "q2"
    /\ run.slow_queries[2].query_id = "q1"

====
